---- MODULE Spec2Model ----
(***************************************************************************)
(* A model of the scam honeypot's core: the detection engine               *)
(* (src/src/detector/scam_detector.py), the persona manager and the        *)
(* conversation agent (src/src/agent/*.py) and the intelligence extractor  *)
(* (src/src/extractor/intelligence_extractor.py).                          *)
(*                                                                         *)
(* Text is a sequence of one-character strings, so that substring tests,   *)
(* lower-casing and the regular expressions of the code are computed on    *)
(* characters, as Python computes them.  Timestamps are left out: nothing  *)
(* modelled here reads them.                                               *)
(***************************************************************************)
EXTENDS Integers, Sequences, FiniteSets, TLC

\* ------------------------------------------------------------------ text

Lowers == <<"a","b","c","d","e","f","g","h","i","j","k","l","m",
            "n","o","p","q","r","s","t","u","v","w","x","y","z">>
Uppers == <<"A","B","C","D","E","F","G","H","I","J","K","L","M",
            "N","O","P","Q","R","S","T","U","V","W","X","Y","Z">>
Letters == 1..26
LowerSet == {Lowers[i] : i \in Letters}
UpperSet == {Uppers[i] : i \in Letters}
DigitSet == {"0","1","2","3","4","5","6","7","8","9"}

\* str.lower() on one character, and on a text
LowerChar(c) ==
    IF c \in UpperSet THEN Lowers[CHOOSE i \in Letters : Uppers[i] = c] ELSE c
\* str.upper() on one character
UpperChar(c) ==
    IF c \in LowerSet THEN Uppers[CHOOSE i \in Letters : Lowers[i] = c] ELSE c
lower(t) == [i \in 1..Len(t) |-> LowerChar(t[i])]
upper(t) == [i \in 1..Len(t) |-> UpperChar(t[i])]

\* w occurs in t at position i
MatchAt(t, w, i) ==
    /\ i + Len(w) - 1 <= Len(t)
    /\ \A k \in 1..Len(w) : t[i + k - 1] = w[k]
\* the same, ignoring case, for a lower-case w (re.IGNORECASE)
MatchAtNoCase(t, w, i) ==
    /\ i + Len(w) - 1 <= Len(t)
    /\ \A k \in 1..Len(w) : LowerChar(t[i + k - 1]) = w[k]
\* (mutant) the operands of  in  exchanged
ContainsSwapped(t, w) == \E i \in 1..(Len(w) - Len(t) + 1) : MatchAt(w, t, i)
\* Python's  w in t  on strings
Contains(t, w) == \E i \in 1..(Len(t) - Len(w) + 1) : MatchAt(t, w, i)
\* any(w in t for w in ws)
ContainsAny(t, ws) == \E w \in ws : Contains(t, w)

\* ' '.join(ts)
RECURSIVE JoinSpace(_)
JoinSpace(ts) ==
    IF Len(ts) = 0 THEN <<>>
    ELSE IF Len(ts) = 1 THEN ts[1]
    ELSE ts[1] \o <<" ">> \o JoinSpace(Tail(ts))

Range(s) == {s[i] : i \in 1..Len(s)}
NoDuplicates(s) == \A i, j \in 1..Len(s) : i # j => s[i] # s[j]

\* ------------------------------------------------------ regular expressions
\* A pattern is modelled by the operator that gives, for a text and a start
\* position, the position just after the match that re finds there (0: none);
\* re.findall scans from the left and resumes after each match.

SpaceSet == {" ", "\t", "\n", "\r"}
WordSet == LowerSet \cup UpperSet \cup DigitSet \cup {"_"}
AlnumSet == LowerSet \cup UpperSet \cup DigitSet

\* the character at position i; "" beyond either end of the text
At(t, i) == IF i \in 1..Len(t) THEN t[i] ELSE ""
IsSpace(t, i) == At(t, i) \in SpaceSet
IsNonSpace(t, i) == i \in 1..Len(t) /\ t[i] \notin SpaceSet
\* the end of the longest run of characters of class starting at i
RunEnd(t, i, class) ==
    CHOOSE j \in i..(Len(t) + 1) :
        /\ At(t, j) \notin class
        /\ \A k \in i..(j - 1) : t[k] \in class
\* the end of the longest run of non-space characters starting at i
NonSpaceRunEnd(t, i) ==
    CHOOSE j \in i..(Len(t) + 1) :
        /\ ~IsNonSpace(t, j)
        /\ \A k \in i..(j - 1) : IsNonSpace(t, k)
\* \b before position i
WordBoundary(t, i) == (At(t, i - 1) \in WordSet) # (At(t, i) \in WordSet)

RECURSIVE ScanFrom(_, _)
ScanFrom(ends, i) ==
    LET starts == {j \in i..Len(ends) : ends[j] # 0} IN
    IF starts = {} THEN <<>>
    ELSE LET j == CHOOSE s \in starts : \A s2 \in starts : s <= s2
         IN <<<<j, ends[j]>>>> \o ScanFrom(ends, ends[j])
\* the matches of re.findall, from the match end of every start position
Spans(ends) == ScanFrom(ends, 1)
\* re.findall(pattern, t) for a pattern without groups: the matched texts
FindAll(t, ends) ==
    LET sp == Spans(ends) IN
    [k \in 1..Len(sp) |-> SubSeq(t, sp[k][1], sp[k][2] - 1)]

\* https?://[^\s]+  with re.IGNORECASE
UrlEnd(t, i) ==
    LET j == IF LowerChar(At(t, i + 4)) = "s" THEN i + 5 ELSE i + 4 IN
    IF /\ MatchAtNoCase(t, <<"h","t","t","p">>, i)
       /\ MatchAt(t, <<":","/","/">>, j)
       /\ IsNonSpace(t, j + 3)
    THEN NonSpaceRunEnd(t, j + 3)
    ELSE 0
UrlEnds(t) == [i \in 1..Len(t) |-> UrlEnd(t, i)]

\* [6-9]\d{9}
PhoneCore(t, i) ==
    /\ At(t, i) \in {"6","7","8","9"}
    /\ \A d \in 1..9 : At(t, i + d) \in DigitSet
\* (\+91|0)?[6-9]\d{9}
PhoneEnd(t, i) ==
    IF MatchAt(t, <<"+","9","1">>, i) /\ PhoneCore(t, i + 3) THEN i + 13
    ELSE IF At(t, i) = "0" /\ PhoneCore(t, i + 1) THEN i + 11
    ELSE IF PhoneCore(t, i) THEN i + 10
    ELSE 0
\* what re.findall returns for this pattern, which has one group: the text the
\* group matched, empty when it took no part in the match
PhoneGroup(t, i) ==
    IF MatchAt(t, <<"+","9","1">>, i) /\ PhoneCore(t, i + 3) THEN <<"+","9","1">>
    ELSE IF At(t, i) = "0" /\ PhoneCore(t, i + 1) THEN <<"0">>
    ELSE <<>>
PhoneEnds(t) == [i \in 1..Len(t) |-> PhoneEnd(t, i)]
FindAllPhoneGroups(t) ==
    LET sp == Spans(PhoneEnds(t)) IN [k \in 1..Len(sp) |-> PhoneGroup(t, sp[k][1])]

\* re.search(r'\d+\.\d+\.\d+\.\d+', t)
DottedQuadAt(t, i) ==
    LET e1 == RunEnd(t, i, DigitSet)
        e2 == RunEnd(t, e1 + 1, DigitSet)
        e3 == RunEnd(t, e2 + 1, DigitSet)
    IN /\ At(t, i) \in DigitSet /\ At(t, e1) = "."
       /\ At(t, e1 + 1) \in DigitSet /\ At(t, e2) = "."
       /\ At(t, e2 + 1) \in DigitSet /\ At(t, e3) = "."
       /\ At(t, e3 + 1) \in DigitSet
HasDottedQuad(t) == \E i \in 1..Len(t) : DottedQuadAt(t, i)

\* sum(f(x) for x in s)
RECURSIVE SumSeq(_)
SumSeq(s) == IF Len(s) = 0 THEN 0 ELSE s[1] + SumSeq(Tail(s))
\* sum(1 for w in ws if w.lower() in t), ws a sequence of texts
CountIn(t, ws) == Cardinality({k \in 1..Len(ws) : Contains(t, lower(ws[k]))})
Min(a, b) == IF a <= b THEN a ELSE b
Max(a, b) == IF a >= b THEN a ELSE b

\* ------------------------------------------------------------- variables

VARIABLES
    fileHasId,              \* data/personas.json: do the stored entries carry an 'id' key
    created,                \* the ConversationAgent objects constructed so far
    personas,               \* PersonaManager.personas of each agent's manager
    current_persona,        \* PersonaManager.current_persona: a reference to an entry of personas
    max_turns,              \* ConversationAgent.max_turns
    enable_typos,           \* ConversationAgent.enable_typos
    conversation_history,   \* ConversationAgent.conversation_history
    turn_number,            \* ConversationAgent.turn_number
    intelligence_extracted, \* ConversationAgent.intelligence_extracted
    ret,                    \* what the last call on the agent returned
    confidence_weight,      \* scam_patterns.json: the confidence_weight of each scam type, in hundredths
    message,                \* the message handed to ScamDetector.detect
    detection,              \* what detect returned for it
    transcript,             \* the conversation handed to IntelligenceExtractor.extract_all
    parser_fails,           \* does phonenumbers raise on the text of this transcript
    extractions,            \* what the calls of extract_all on it returned, in order
    config,                 \* ScamHoneypot.config
    configured_persona,     \* config['agent']['default_persona'] as the configuration file gives it
    request,                \* the body of each /api/v1/engage request
    phase,                  \* where the handling of each request stands
    detected,               \* what detect returned to process_message for each request, if called
    loop_turn,              \* engage_scammer's loop: the iterations begun
    sessions,               \* the adversary API's session of each engagement, if one was started
    report,                 \* what engage_scammer returned for each request
    generated,              \* what generate_report returned for the transcript
    http_request,           \* the request each handler of guvi_api_server.py serves
    pc,                     \* the position of each handler
    handler_session,        \* the handler's local  session: a reference to a session dict
    handler_detection,      \* the handler's local  detection_result
    payload,                \* send_final_result's local  payload
    http_response,          \* what the handler returned
    heap,                   \* the session dicts, by the handler that created them
    active_sessions,        \* active_sessions: session id -> session dict
    callbacks,              \* the posts to GUVI_CALLBACK_URL, in order, and how each ended
    client,                 \* the MockScammerAPI object: its rate limit settings
    clock,                  \* datetime.now(), in seconds
    request_times,          \* MockScammerAPI.request_times
    issued,                 \* the times at which the client sent an HTTP request, in order
    attempt,                \* _make_request_with_retry's loop variable
    outcomes,               \* how each attempt of the current call ended
    waits,                  \* the backoff sleeps of the current call
    call_result             \* how the current call of _make_request_with_retry ended

agentVars == <<created, personas, current_persona, max_turns, enable_typos,
               conversation_history, turn_number, intelligence_extracted, ret>>
detectVars == <<confidence_weight, message, detection>>
extractVars == <<transcript, parser_fails, extractions>>
engageVars == <<config, configured_persona, request, phase, detected,
                loop_turn, sessions, report>>
guviVars == <<http_request, pc, handler_session, handler_detection, payload,
              http_response, heap, active_sessions, callbacks>>
clientVars == <<client, clock, request_times, issued, attempt, outcomes, waits,
                call_result>>
serverVars == <<engageVars, generated, guviVars, clientVars>>
vars == <<fileHasId, agentVars, detectVars, extractVars, serverVars>>

\* ------------------------------------------------------- persona manager

Agents == {"c1", "c2"}
None == "None"
PersonaKeys == {"elderly_user", "eager_customer", "worried_parent", "busy_professional"}
\* the persona names a caller may ask for: a catalog key, an unknown name, or none
RequestedNames == PersonaKeys \cup {"no_such_persona", None}

\* data['personas'] as json.load returns it: the vulnerability tier of each
\* persona, and the 'id' key when the file stores one ("absent": no such key)
VulnerabilityOf(k) ==
    CASE k = "elderly_user" -> "high"
      [] k = "eager_customer" -> "medium-high"
      [] k = "worried_parent" -> "medium"
      [] k = "busy_professional" -> "low"
LoadPersonas(hasId) ==
    [k \in PersonaKeys |->
        [vulnerability_level |-> VulnerabilityOf(k),
         id |-> IF hasId THEN k ELSE "absent"]]

\* the entry current_persona refers to, and its 'id'
CurrentEntry(a) == personas[a][current_persona[a]]
PersonaId(a) == CurrentEntry(a).id

\* select_persona: the catalog key chosen (pick is random.choice's draw)
\* (mutant) any name that is given is taken for a key
SelectedKeyAsNamed(cat, persona_name, pick) ==
    IF persona_name # None THEN persona_name ELSE pick
SelectedKey(cat, persona_name, pick) ==
    IF persona_name # None /\ persona_name \in DOMAIN cat THEN persona_name ELSE pick
\* select_persona: the catalog after  self.current_persona['id'] = persona_name,
\* where current_persona is the stored entry itself
SelectWrite(cat, key) == [cat EXCEPT ![key].id = key]

\* (mutant) the high tier asks from turn 2 on
should_ask_too_early(entry, turn, coin) ==
    LET vulnerability == entry.vulnerability_level IN
    IF vulnerability = "high" /\ turn >= 2 THEN coin
    ELSE IF vulnerability = "medium-high" /\ turn >= 4 THEN coin
    ELSE IF vulnerability = "medium" /\ turn >= 5 THEN coin
    ELSE FALSE
\* should_ask_for_details; coin is the outcome of  random.random() < p
should_ask_for_details(entry, turn, coin) ==
    LET vulnerability == entry.vulnerability_level IN
    IF vulnerability = "high" /\ turn >= 3 THEN coin
    ELSE IF vulnerability = "medium-high" /\ turn >= 4 THEN coin
    ELSE IF vulnerability = "medium" /\ turn >= 5 THEN coin
    ELSE FALSE

\* ---------------------------------------------------------------- replies
\* A reply is the template it was drawn from (set, idx) and what styling and
\* the human touches did to it.

Reply(set, idx) ==
    [set |-> set, idx |-> idx, prefix |-> "none", extra |-> FALSE,
     brief |-> FALSE, typo |-> FALSE, ellipsis |-> FALSE]
NoReply == Reply("None", 0)

\* the number of templates of each candidate list
SetSize(set) ==
    CASE set = "initial" -> 3
      [] set = "generic" -> 1
      [] set = "detail" -> 6
      [] set = "urgency" -> 3
      [] set = "threat" -> 3
      [] set = "prize" -> 3
      [] set = "payment" -> 4
      [] set = "link" -> 3
      [] set = "default" -> 5

\* 'prize' in base_response.lower() or 'won' in base_response.lower():
\* of all templates only "Wonderful! Please guide me through the process."
HasPrizeWord(r) == r.set = "prize" /\ r.idx = 3

\* get_initial_response: the candidate list of the persona id
InitialSet(persona_id) == IF persona_id \in PersonaKeys THEN "initial" ELSE "generic"

\* (mutant) the hesitant prefix is kept one turn longer
StyleHesitantLonger(persona_id, base, turn, coin) ==
    CASE persona_id = "elderly_user" ->
            [base EXCEPT !.prefix = IF turn <= 3 THEN "hesitant" ELSE "none",
                         !.extra = coin]
      [] persona_id = "worried_parent" ->
            [base EXCEPT !.prefix = IF turn <= 3 THEN "oh_no" ELSE "none",
                         !.extra = coin]
      [] OTHER -> base
\* generate_response_style; coin is the outcome of the persona's random test
generate_response_style(persona_id, base, turn, coin) ==
    CASE persona_id = "elderly_user" ->
            [base EXCEPT !.prefix = IF turn <= 2 THEN "hesitant" ELSE "none",
                         !.extra = coin]
      [] persona_id = "eager_customer" ->
            [base EXCEPT !.prefix = IF HasPrizeWord(base) THEN "really" ELSE "none",
                         !.extra = coin]
      [] persona_id = "worried_parent" ->
            [base EXCEPT !.prefix = IF turn <= 3 THEN "oh_no" ELSE "none",
                         !.extra = coin]
      [] persona_id = "busy_professional" ->
            [base EXCEPT !.prefix = IF turn = 1 THEN "busy" ELSE "none",
                         !.brief = coin]
      [] OTHER -> base

\* _add_human_touches; typo and dots are the outcomes of the two random tests
add_human_touches(enabled, r, typo, dots) ==
    IF ~enabled THEN r ELSE [r EXCEPT !.typo = typo, !.ellipsis = dots]
TouchCoins(enabled) == IF enabled THEN BOOLEAN ELSE {FALSE}

\* --------------------------------------------------- conversation agent

\* the words _determine_response looks for, in the order it looks for them
UrgencyWords ==
    {<<"u","r","g","e","n","t">>,
     <<"i","m","m","e","d","i","a","t","e","l","y">>,
     <<"n","o","w">>,
     <<"h","u","r","r","y">>}
ThreatWords ==
    {<<"p","o","l","i","c","e">>,
     <<"a","r","r","e","s","t">>,
     <<"l","e","g","a","l">>,
     <<"c","o","u","r","t">>,
     <<"b","l","o","c","k","e","d">>}
PrizeWords ==
    {<<"w","o","n">>,
     <<"p","r","i","z","e">>,
     <<"l","o","t","t","e","r","y">>,
     <<"m","o","n","e","y">>,
     <<"r","e","w","a","r","d">>}
PaymentWords ==
    {<<"p","a","y">>,
     <<"s","e","n","d">>,
     <<"t","r","a","n","s","f","e","r">>,
     <<"a","c","c","o","u","n","t">>}
LinkWords ==
    {<<"h","t","t","p">>,
     <<"l","i","n","k">>}

\* (mutant) the payment words are looked for first
BaseSetPaymentFirst(scammer_message) ==
    LET message_lower == lower(scammer_message) IN
    IF ContainsAny(message_lower, PaymentWords) THEN "payment"
    ELSE IF ContainsAny(message_lower, UrgencyWords) THEN "urgency"
    ELSE IF ContainsAny(message_lower, ThreatWords) THEN "threat"
    ELSE IF ContainsAny(message_lower, PrizeWords) THEN "prize"
    ELSE IF ContainsAny(message_lower, LinkWords) THEN "link"
    ELSE "default"
\* _determine_response below the detail request: the candidate list of the
\* first category whose words occur in the lower-cased message
BaseSet(scammer_message) ==
    LET message_lower == lower(scammer_message) IN
    IF ContainsAny(message_lower, UrgencyWords) THEN "urgency"
    ELSE IF ContainsAny(message_lower, ThreatWords) THEN "threat"
    ELSE IF ContainsAny(message_lower, PrizeWords) THEN "prize"
    ELSE IF ContainsAny(message_lower, PaymentWords) THEN "payment"
    ELSE IF ContainsAny(message_lower, LinkWords) THEN "link"
    ELSE "default"

\* (mutant) the detail request is issued whether or not one was issued before
AsksAgain(entry, turn, coin, extracted) == should_ask_for_details(entry, turn, coin)
\* _determine_response: does this call issue the detail request
AsksForDetails(entry, turn, coin, extracted) ==
    should_ask_for_details(entry, turn, coin) /\ ~extracted
\* _determine_response: the candidate list the reply is drawn from
ResponseSet(asks, scammer_message) ==
    IF asks THEN "detail" ELSE BaseSet(scammer_message)

\* the outcomes of generate_response_style's random test that differ
StyleCoins(persona_id) == IF persona_id \in PersonaKeys THEN BOOLEAN ELSE {FALSE}
\* the outcomes of should_ask_for_details's random test that differ
AskCoins(entry, turn) ==
    IF should_ask_for_details(entry, turn, TRUE) THEN BOOLEAN ELSE {FALSE}

\* (mutant) the message is recorded as _determine_response reads it, lower-cased
ScammerMsgLowered(m) == [role |-> "scammer", content |-> lower(m)]
ScammerMsg(m) == [role |-> "scammer", content |-> m]
AgentMsg(r) == [role |-> "agent", content |-> r]
\* (mutant) the new entries are put in front of the history
RecordedInFront(history, entries) == entries \o history
\* self.conversation_history.append(...), once for every entry of entries
Recorded(history, entries) == history \o entries

\* (mutant) a persona is selected anew at every start of a conversation
NeedsSelectAlways(a) == TRUE
\* get_initial_response:  if not self.current_persona: self.select_persona()
NeedsSelect(a) == current_persona[a] = None

\* generate_response:  if self.turn_number > self.max_turns: return None
TurnLimitReached(turn, limit) == turn > limit

\* ConversationAgent(persona_name, config): PersonaManager() loads the catalog,
\* select_persona(persona_name) picks the persona, the state starts empty
NewAgent(a, persona_name, cfg, pick) ==
    /\ a \notin created
    /\ LET cat == LoadPersonas(fileHasId)
           key == SelectedKey(cat, persona_name, pick)
       IN /\ personas' = [personas EXCEPT ![a] = SelectWrite(cat, key)]
          /\ current_persona' = [current_persona EXCEPT ![a] = key]
    /\ created' = created \cup {a}
    /\ max_turns' = [max_turns EXCEPT ![a] = cfg.max_conversation_turns]
    /\ enable_typos' = [enable_typos EXCEPT ![a] = cfg.enable_typos]
    /\ conversation_history' = [conversation_history EXCEPT ![a] = <<>>]
    /\ turn_number' = [turn_number EXCEPT ![a] = 0]
    /\ intelligence_extracted' = [intelligence_extracted EXCEPT ![a] = FALSE]
    /\ ret' = [ret EXCEPT ![a] = NoReply]
    /\ UNCHANGED fileHasId

\* start_conversation(initial_scam_message, scam_type); the reply does not
\* depend on scam_type
StartConversation(a, m, pick, idx, typo, dots) ==
    /\ a \in created
    /\ LET key == IF NeedsSelect(a) THEN pick ELSE current_persona[a]
           cat == IF NeedsSelect(a) THEN SelectWrite(personas[a], pick) ELSE personas[a]
           set == InitialSet(cat[key].id)
           response == add_human_touches(enable_typos[a], Reply(set, idx), typo, dots)
       IN /\ idx \in 1..SetSize(set)
          /\ personas' = [personas EXCEPT ![a] = cat]
          /\ current_persona' = [current_persona EXCEPT ![a] = key]
          /\ conversation_history' =
                [conversation_history EXCEPT
                    ![a] = Recorded(@, <<ScammerMsg(m), AgentMsg(response)>>)]
          /\ ret' = [ret EXCEPT ![a] = response]
    /\ turn_number' = [turn_number EXCEPT ![a] = 1]
    /\ UNCHANGED <<fileHasId, created, max_turns, enable_typos, intelligence_extracted>>

\* generate_response(scammer_message)
GenerateResponse(a, m, ask, idx, coin, typo, dots) ==
    /\ a \in created
    /\ LET turn == turn_number[a] + 1
           entry == CurrentEntry(a)
           asks == AsksForDetails(entry, turn, ask, intelligence_extracted[a])
           set == ResponseSet(asks, m)
           styled == generate_response_style(entry.id, Reply(set, idx), turn, coin)
           response == add_human_touches(enable_typos[a], styled, typo, dots)
       IN /\ turn_number' = [turn_number EXCEPT ![a] = turn]
          /\ IF TurnLimitReached(turn, max_turns[a])
             THEN /\ ask = FALSE /\ idx = 1 /\ coin = FALSE /\ typo = FALSE /\ dots = FALSE
                  /\ conversation_history' =
                        [conversation_history EXCEPT ![a] = Recorded(@, <<ScammerMsg(m)>>)]
                  /\ ret' = [ret EXCEPT ![a] = NoReply]
                  /\ UNCHANGED intelligence_extracted
             ELSE /\ ask \in AskCoins(entry, turn)
                  /\ idx \in 1..SetSize(set)
                  /\ coin \in StyleCoins(entry.id)
                  /\ intelligence_extracted' =
                        [intelligence_extracted EXCEPT ![a] = @ \/ asks]
                  /\ conversation_history' =
                        [conversation_history EXCEPT
                            ![a] = Recorded(@, <<ScammerMsg(m), AgentMsg(response)>>)]
                  /\ ret' = [ret EXCEPT ![a] = response]
    /\ UNCHANGED <<fileHasId, created, personas, current_persona, max_turns, enable_typos>>

\* ---------------------------------------------------------- scam detector

\* scam_patterns.json, as ScamDetector.__init__ loads it: the scam types in
\* the order the file lists them, with their keyword lists
ScamTypes == <<"banking_fraud", "prize_lottery", "impersonation">>
Keywords(scam_type) ==
    CASE scam_type = "banking_fraud" ->
            <<<<"a","c","c","o","u","n","t">>, <<"b","l","o","c","k","e","d">>,
              <<"V","e","r","i","f","y">>>>
      [] scam_type = "prize_lottery" ->
            <<<<"w","o","n">>, <<"p","r","i","z","e">>>>
      [] scam_type = "impersonation" ->
            <<<<"o","f","f","i","c","e","r">>>>
UrgencyIndicators(scam_type) ==
    CASE scam_type = "banking_fraud" -> <<<<"i","m","m","e","d","i","a","t","e","l","y">>>>
      [] scam_type = "prize_lottery" -> <<<<"c","l","a","i","m">>>>
      [] scam_type = "impersonation" -> <<>>
AuthorityClaims(scam_type) ==
    CASE scam_type = "impersonation" -> <<<<"p","o","l","i","c","e">>>>
      [] OTHER -> <<>>
common_red_flags == <<<<"c","l","i","c","k"," ","h","e","r","e">>, <<"O","T","P">>>>
legitimate_indicators == <<<<"m","e","e","t","i","n","g">>, <<"r","e","m","i","n","d","e","r">>>>

\* the entries of ws that occur in the lower-cased message, in list order
Matched(message_lower, ws) ==
    SelectSeq(ws, LAMBDA w : Contains(message_lower, lower(w)))
Label(kind, ws) == [k \in 1..Len(ws) |-> [kind |-> kind, text |-> ws[k]]]

\* the points one match adds to a scam type's score, in tenths
KeywordPoints == 10
UrgencyPoints == 15
AuthorityPoints == 12

\* detect: the score of one scam type, in tenths
Score(scam_type, message_lower) ==
    KeywordPoints * Len(Matched(message_lower, Keywords(scam_type)))
    + UrgencyPoints * Len(Matched(message_lower, UrgencyIndicators(scam_type)))
    + AuthorityPoints * Len(Matched(message_lower, AuthorityClaims(scam_type)))
\* detect: score * patterns['confidence_weight'], in thousandths
WeightedScore(scam_type, message_lower, weight) ==
    Score(scam_type, message_lower) * weight[scam_type]
\* detect: the matches of one scam type, as it lists them
Matches(scam_type, message_lower) ==
    Label("keyword", Matched(message_lower, Keywords(scam_type)))
    \o Label("urgency", Matched(message_lower, UrgencyIndicators(scam_type)))
    \o Label("authority", Matched(message_lower, AuthorityClaims(scam_type)))

\* (mutant) every scam type is entered in scam_scores, also with score 0
ScoredAll(message_lower) == 1..Len(ScamTypes)
\* the keys of scam_scores: the scam types with score > 0, by position in ScamTypes
Scored(message_lower) ==
    {k \in 1..Len(ScamTypes) : Score(ScamTypes[k], message_lower) > 0}
\* (mutant) the last of the largest
TopScamTypeLast(message_lower, weight) ==
    LET w(k) == WeightedScore(ScamTypes[k], message_lower, weight)
        scored == Scored(message_lower)
    IN CHOOSE k \in scored :
          /\ \A j \in scored : w(j) <= w(k)
          /\ \A j \in scored : j > k => w(j) < w(k)
\* max(scam_scores.items(), key=lambda x: x[1]): the first of the largest
TopScamType(message_lower, weight) ==
    LET w(k) == WeightedScore(ScamTypes[k], message_lower, weight)
        scored == Scored(message_lower)
    IN CHOOSE k \in scored :
          /\ \A j \in scored : w(j) <= w(k)
          /\ \A j \in scored : j < k => w(j) < w(k)

\* int(x) for x = n/d, d > 0: the fraction is dropped, towards zero
IntOf(n, d) == IF n >= 0 THEN n \div d ELSE -((-n) \div d)

\* _check_url_patterns
UrlSuspicion(url) ==
    (IF ContainsAny(lower(url), {<<".","t","k">>, <<".","m","l">>, <<".","g","a">>,
                                 <<".","c","f">>, <<".","g","q">>}) THEN 2 ELSE 0)
    + (IF ContainsAny(lower(url), {<<"b","i","t",".","l","y">>,
                                   <<"t","i","n","y","u","r","l">>,
                                   <<"g","o","o",".","g","l">>}) THEN 1 ELSE 0)
    + (IF HasDottedQuad(url) THEN 2 ELSE 0)
check_url_patterns(msg) ==
    LET urls == FindAll(msg, UrlEnds(msg)) IN
    Min(SumSeq([k \in 1..Len(urls) |-> UrlSuspicion(urls[k])]), 3)
\* _check_phone_patterns
check_phone_patterns(msg) == Min(Len(FindAllPhoneGroups(msg)), 2)
\* _check_urgency_language
urgency_words ==
    <<<<"u","r","g","e","n","t">>,
      <<"i","m","m","e","d","i","a","t","e","l","y">>,
      <<"n","o","w">>,
      <<"h","u","r","r","y">>,
      <<"q","u","i","c","k">>,
      <<"e","x","p","i","r","e">>,
      <<"l","a","s","t"," ","c","h","a","n","c","e">>,
      <<"l","i","m","i","t","e","d"," ","t","i","m","e">>,
      <<"a","c","t"," ","f","a","s","t">>>>
check_urgency_language(msg) ==
    Min(Cardinality({k \in 1..Len(urgency_words) : Contains(lower(msg), urgency_words[k])}), 3)

\* (mutant) round() in the place of int(): to the nearest integer, a half to
\* the even one
BaseConfidenceRounded(raw_score, red_flags, legitimate_score) ==
    LET n == raw_score * 15 + 1000 * (red_flags * 10) - 1000 * (legitimate_score * 20)
        q == n \div 1000
        r == n - 1000 * q
    IN Min(100, IF 2 * r < 1000 THEN q
                ELSE IF 2 * r > 1000 THEN q + 1
                ELSE IF q % 2 = 0 THEN q ELSE q + 1)
\* detect: the confidence before the heuristics, from the top weighted score
\* (thousandths), the number of red flags and of legitimate indicators
BaseConfidence(raw_score, red_flags, legitimate_score) ==
    Min(100, IntOf(raw_score * 15 + 1000 * (red_flags * 10) - 1000 * (legitimate_score * 20),
                   1000))
\* (mutant) the clamp without its lower end
ClampAbove(confidence) == Min(100, confidence)
\* detect: the confidence after the heuristics
Clamp(confidence) == Max(0, Min(100, confidence))
\* detect: is_scam, and the guard of scam_type
IsScam(confidence) == confidence >= 50
\* (mutant) the winning scam type is reported whatever the confidence
ScamTypeAlways(confidence, scam_type_name) == scam_type_name
\* detect: the scam_type of the result
ScamTypeOf(confidence, scam_type_name) ==
    IF IsScam(confidence) THEN scam_type_name ELSE None

NoDetection ==
    [is_scam |-> FALSE, confidence |-> 0, scam_type |-> None,
     matched_patterns |-> <<>>, red_flags |-> <<>>]

\* ScamDetector.detect
detect(msg, weight) ==
    LET message_lower == lower(msg)
        legitimate_score == CountIn(message_lower, legitimate_indicators)
        red_flags_found == Matched(message_lower, common_red_flags)
    IN
    IF Scored(message_lower) = {}
    THEN [is_scam |-> FALSE, confidence |-> 0, scam_type |-> None,
          matched_patterns |-> <<>>, red_flags |-> red_flags_found]
    ELSE
    LET scam_type_name == ScamTypes[TopScamType(message_lower, weight)]
        raw_score == WeightedScore(scam_type_name, message_lower, weight)
        confidence ==
            Clamp(BaseConfidence(raw_score, Len(red_flags_found), legitimate_score)
                  + check_url_patterns(msg) * 10
                  + check_phone_patterns(msg) * 8
                  + check_urgency_language(msg) * 5)
    IN [is_scam |-> IsScam(confidence),
        confidence |-> confidence,
        scam_type |-> ScamTypeOf(confidence, scam_type_name),
        matched_patterns |-> Matches(scam_type_name, message_lower),
        red_flags |-> red_flags_found]

\* one call of detect on the message
Detect ==
    /\ detection = <<>>
    /\ detection' = <<detect(message, confidence_weight)>>
    /\ UNCHANGED <<confidence_weight, message>>

\* ------------------------------------------------ intelligence extractor

\* Optional values: None is the empty tuple, a value v is <<v>>
Nil == <<>>
Some(v) == <<v>>

\* the last position of lo..hi that has a word boundary before it (0: none):
\* where a greedy repetition followed by \b ends after backtracking
LastBoundary(t, lo, hi) ==
    LET S == {e \in lo..hi : WordBoundary(t, e)} IN
    IF S = {} THEN 0 ELSE CHOOSE e \in S : \A f \in S : f <= e

\* bank_account_pattern  \b\d{9,18}\b
AccountEnd(t, i) ==
    LET e == RunEnd(t, i, DigitSet) IN
    IF /\ At(t, i) \in DigitSet
       /\ WordBoundary(t, i)
       /\ e - i >= 9 /\ e - i <= 18
       /\ WordBoundary(t, e)
    THEN e ELSE 0
AccountEnds(t) == [i \in 1..Len(t) |-> AccountEnd(t, i)]

\* ifsc_pattern  \b[A-Z]{4}0[A-Z0-9]{6}\b  with re.IGNORECASE
IfscEnd(t, i) ==
    IF /\ At(t, i) \in LowerSet \cup UpperSet
       /\ WordBoundary(t, i)
       /\ \A k \in 1..3 : At(t, i + k) \in LowerSet \cup UpperSet
       /\ At(t, i + 4) = "0"
       /\ \A k \in 5..10 : At(t, i + k) \in AlnumSet
       /\ WordBoundary(t, i + 11)
    THEN i + 11 ELSE 0
IfscEnds(t) == [i \in 1..Len(t) |-> IfscEnd(t, i)]

\* upi_pattern  \b[\w\.-]+@[\w\.-]+\b
UpiSet == WordSet \cup {".", "-"}
UpiEnd(t, i) ==
    LET e1 == RunEnd(t, i, UpiSet)
        e2 == RunEnd(t, e1 + 1, UpiSet)
    IN IF /\ At(t, i) \in UpiSet
          /\ WordBoundary(t, i)
          /\ At(t, e1) = "@"
       THEN LastBoundary(t, e1 + 2, e2) ELSE 0
UpiEnds(t) == [i \in 1..Len(t) |-> UpiEnd(t, i)]

\* email_pattern  \b[A-Za-z0-9._%+-]+@[A-Za-z0-9.-]+\.[A-Z|a-z]{2,}\b
EmailLocalSet == AlnumSet \cup {".", "_", "%", "+", "-"}
EmailDomainSet == AlnumSet \cup {".", "-"}
EmailTldSet == LowerSet \cup UpperSet \cup {"|"}
\* the end of  \.[A-Z|a-z]{2,}\b  tried at the dot p
EmailTldEnd(t, p) ==
    IF At(t, p) = "." THEN LastBoundary(t, p + 3, RunEnd(t, p + 1, EmailTldSet)) ELSE 0
EmailEnd(t, i) ==
    LET e1 == RunEnd(t, i, EmailLocalSet)
        e2 == RunEnd(t, e1 + 1, EmailDomainSet)
        \* the dots the greedy domain can give back, the last one first
        dots == {p \in (e1 + 2)..(e2 - 1) : EmailTldEnd(t, p) # 0}
    IN IF /\ At(t, i) \in EmailLocalSet
          /\ WordBoundary(t, i)
          /\ At(t, e1) = "@"
          /\ dots # {}
       THEN EmailTldEnd(t, CHOOSE p \in dots : \A q \in dots : q <= p) ELSE 0
EmailEnds(t) == [i \in 1..Len(t) |-> EmailEnd(t, i)]

\* btc_pattern  \b[13][a-km-zA-HJ-NP-Z1-9]{25,34}\b
Base58Set ==
    {"a","b","c","d","e","f","g","h","i","j","k","m","n","o","p","q","r","s","t","u","v","w","x","y","z","A","B","C","D",
     "E","F","G","H","J","K","L","M","N","P","Q","R","S","T","U","V","W","X","Y","Z","1","2","3","4","5","6","7","8","9"}
BtcEnd(t, i) ==
    LET e == RunEnd(t, i + 1, Base58Set) IN
    IF At(t, i) \in {"1", "3"} /\ WordBoundary(t, i)
    THEN LastBoundary(t, i + 26, Min(e, i + 35)) ELSE 0
BtcEnds(t) == [i \in 1..Len(t) |-> BtcEnd(t, i)]

\* eth_pattern  \b0x[a-fA-F0-9]{40}\b
HexSet ==
    {"a","b","c","d","e","f","A","B","C","D","E","F",
     "0","1","2","3","4","5","6","7","8","9"}
EthEnd(t, i) ==
    IF /\ MatchAt(t, <<"0","x">>, i)
       /\ WordBoundary(t, i)
       /\ \A k \in 2..41 : At(t, i + k) \in HexSet
       /\ WordBoundary(t, i + 42)
    THEN i + 42 ELSE 0
EthEnds(t) == [i \in 1..Len(t) |-> EthEnd(t, i)]

\* phonenumbers.PhoneNumberMatcher(text, "IN"): the library finds the Indian
\* mobile numbers that stand on their own in the text, written nationally
\* (ten digits from 6-9, with or without the trunk 0) or with +91
LibPhoneEnd(t, i) ==
    LET e == PhoneEnd(t, i) IN
    IF /\ e # 0
       /\ At(t, i - 1) \notin WordSet \cup {"+"}
       /\ At(t, e) \notin WordSet
    THEN e ELSE 0
LibPhoneEnds(t) == [i \in 1..Len(t) |-> LibPhoneEnd(t, i)]
\* phonenumbers.format_number(match.number, E164) of the match ending at e
E164(t, e) == <<"+","9","1">> \o SubSeq(t, e - 10, e - 1)
PhoneNumberMatcher(t) ==
    LET sp == Spans(LibPhoneEnds(t)) IN [k \in 1..Len(sp) |-> E164(t, sp[k][2])]

\* list(set(s)): the distinct elements of s.  Python fixes their order by the
\* hashes of the strings, which the caller does not control: HashOrders are
\* the orders modelled, first occurrence first or last.
RECURSIVE Distinct(_)
Distinct(s) ==
    IF Len(s) = 0 THEN <<>>
    ELSE LET front == SubSeq(s, 1, Len(s) - 1)
             last == s[Len(s)]
         IN IF last \in Range(front) THEN Distinct(front)
            ELSE Append(Distinct(front), last)
Reverse(s) == [k \in 1..Len(s) |-> s[Len(s) + 1 - k]]
HashOrders == {"forward", "backward"}
\* (mutant) the list as it was, duplicates kept
ListKept(s, order) == IF order = "forward" THEN s ELSE Reverse(s)
ListOfSet(s, order) == IF order = "forward" THEN Distinct(s) ELSE Reverse(Distinct(s))

email_domains ==
    {<<"g","m","a","i","l",".","c","o","m">>,
     <<"y","a","h","o","o",".","c","o","m">>,
     <<"h","o","t","m","a","i","l",".","c","o","m">>,
     <<"o","u","t","l","o","o","k",".","c","o","m">>,
     <<"p","r","o","t","o","n","m","a","i","l",".","c","o","m">>,
     <<"i","c","l","o","u","d",".","c","o","m">>,
     <<"a","o","l",".","c","o","m">>,
     <<"m","a","i","l",".","c","o","m">>,
     <<"z","o","h","o",".","c","o","m">>,
     <<"y","a","n","d","e","x",".","c","o","m">>,
     <<"r","e","d","i","f","f","m","a","i","l",".","c","o","m">>}
upi_handles ==
    {<<"p","a","y","t","m">>,
     <<"p","h","o","n","e","p","e">>,
     <<"g","o","o","g","l","e","p","a","y">>,
     <<"g","p","a","y">>,
     <<"a","m","a","z","o","n","p","a","y">>,
     <<"b","h","i","m">>,
     <<"y","b","l">>,
     <<"o","k","s","b","i">>,
     <<"o","k","a","x","i","s">>,
     <<"o","k","i","c","i","c","i">>,
     <<"o","k","h","d","f","c","b","a","n","k">>,
     <<"i","b","l">>,
     <<"a","x","l">>,
     <<"p","n","b">>,
     <<"b","o","i">>,
     <<"c","n","r","b">>,
     <<"u","p","i">>,
     <<"f","b","l">>,
     <<"s","b","i">>,
     <<"i","c","i","c","i">>,
     <<"h","d","f","c">>,
     <<"a","x","i","s">>,
     <<"k","o","t","a","k">>,
     <<"f","e","d","e","r","a","l">>,
     <<"i","n","d","u","s">>}
email_excluded_handles ==
    {<<"p","a","y","t","m">>,
     <<"p","h","o","n","e","p","e">>,
     <<"y","b","l">>}
bank_codes(bank_code) ==
    CASE bank_code = <<"S","B","I","N">> -> "State Bank of India"
      [] bank_code = <<"H","D","F","C">> -> "HDFC Bank"
      [] bank_code = <<"I","C","I","C">> -> "ICICI Bank"
      [] bank_code = <<"A","X","I","S">> -> "Axis Bank"
      [] bank_code = <<"P","U","N","B">> -> "Punjab National Bank"
      [] bank_code = <<"B","A","R","B">> -> "Bank of Baroda"
      [] bank_code = <<"C","N","R","B">> -> "Canara Bank"
      [] bank_code = <<"U","B","I","N">> -> "Union Bank of India"
      [] bank_code = <<"I","D","I","B">> -> "Indian Bank"
      [] bank_code = <<"I","O","B","A">> -> "Indian Overseas Bank"
      [] OTHER -> "Unknown Bank"
\* the account entry of the i-th account number
AccountInfo(account_numbers, ifsc_codes, i) ==
    LET ifsc == upper(ifsc_codes[i]) IN
    [account_number |-> Some(account_numbers[i]),
     ifsc_code |-> IF i <= Len(ifsc_codes) THEN Some(ifsc) ELSE Nil,
     bank_name |-> IF i <= Len(ifsc_codes) THEN bank_codes(SubSeq(ifsc, 1, 4)) ELSE None,
     extracted_at |-> <<"message", i>>]
\* the entry of an IFSC code that has no account number
StandaloneInfo(ifsc_code) ==
    LET ifsc == upper(ifsc_code) IN
    [account_number |-> Nil,
     ifsc_code |-> Some(ifsc),
     bank_name |-> bank_codes(SubSeq(ifsc, 1, 4)),
     extracted_at |-> <<"standalone", 0>>]
\* (mutant) every IFSC code is taken for one without an account number
SliceAll(s, n) == s
\* ifsc_codes[n:]
SliceFrom(s, n) == SubSeq(s, n + 1, Len(s))
extract_bank_accounts(text) ==
    LET account_numbers == FindAll(text, AccountEnds(text))
        ifsc_codes == FindAll(text, IfscEnds(text))
        rest == SliceFrom(ifsc_codes, Len(account_numbers))
    IN [i \in 1..Len(account_numbers) |-> AccountInfo(account_numbers, ifsc_codes, i)]
       \o [k \in 1..Len(rest) |-> StandaloneInfo(rest[k])]

IsUpi(upi) ==
    /\ ~ContainsAny(lower(upi), email_domains)
    /\ ContainsAny(lower(upi), upi_handles)
extract_upi_ids(text, order) ==
    ListOfSet(SelectSeq(FindAll(text, UpiEnds(text)), IsUpi), order)

\* phones is what the parser gave unless it raised, and then what
\* re.findall gives for the fallback pattern
extract_phone_numbers(text, fails, order) ==
    ListOfSet(IF fails THEN FindAllPhoneGroups(text) ELSE PhoneNumberMatcher(text), order)

extract_urls(text, order) == ListOfSet(FindAll(text, UrlEnds(text)), order)

KeepEmail(email) == ~ContainsAny(lower(email), email_excluded_handles)
extract_emails(text, order) ==
    ListOfSet(SelectSeq(FindAll(text, EmailEnds(text)), KeepEmail), order)

extract_crypto_addresses(text, order) ==
    [bitcoin |-> ListOfSet(FindAll(text, BtcEnds(text)), order),
     ethereum |-> ListOfSet(FindAll(text, EthEnds(text)), order)]

\* [msg['content'] for msg in conversation if msg.get('role') == 'scammer']
\* (mutant) the messages of every author are kept
AnyRole(msg) == TRUE
IsScammer(msg) == msg.role = "scammer"
Contents(msgs) == [k \in 1..Len(msgs) |-> msgs[k].content]
extract_all(conversation, fails, order) ==
    LET scammer_messages == Contents(SelectSeq(conversation, IsScammer))
        full_text == JoinSpace(scammer_messages)
    IN [bank_accounts |-> extract_bank_accounts(full_text),
        upi_ids |-> extract_upi_ids(full_text, order),
        phone_numbers |-> extract_phone_numbers(full_text, fails, order),
        urls |-> extract_urls(full_text, order),
        emails |-> extract_emails(full_text, order),
        crypto_addresses |-> extract_crypto_addresses(full_text, order)]

\* one call of extract_all on the transcript; two calls are followed
ExtractAll(order) ==
    /\ Len(extractions) < 2
    /\ extractions' = Append(extractions, extract_all(transcript, parser_fails, order))
    /\ UNCHANGED <<transcript, parser_fails>>

\* _analyze_tactics: the tactic labels in the order they are tested, and the
\* words of each
Tactics == <<"urgency", "fear", "authority", "greed", "social_engineering">>
TacticWords(tactic) ==
    CASE tactic = "urgency" ->
            {<<"u","r","g","e","n","t">>, <<"i","m","m","e","d","i","a","t","e","l","y">>,
             <<"n","o","w">>, <<"h","u","r","r","y">>}
      [] tactic = "fear" ->
            {<<"p","o","l","i","c","e">>, <<"a","r","r","e","s","t">>,
             <<"l","e","g","a","l">>, <<"c","o","u","r","t">>}
      [] tactic = "authority" ->
            {<<"o","f","f","i","c","i","a","l">>, <<"g","o","v","e","r","n","m","e","n","t">>,
             <<"b","a","n","k">>, <<"d","e","p","a","r","t","m","e","n","t">>}
      [] tactic = "greed" ->
            {<<"w","o","n">>, <<"p","r","i","z","e">>,
             <<"l","o","t","t","e","r","y">>, <<"r","e","w","a","r","d">>}
      [] tactic = "social_engineering" ->
            {<<"v","e","r","i","f","y">>, <<"c","o","n","f","i","r","m">>,
             <<"u","p","d","a","t","e">>, <<"s","e","c","u","r","i","t","y">>}
\* (mutant) a tactic needs every word of its list
HasEveryWord(scammer_text, tactic) ==
    \A word \in TacticWords(tactic) : Contains(scammer_text, word)
\* any(word in scammer_text for word in [...])
HasTactic(scammer_text, tactic) == ContainsAny(scammer_text, TacticWords(tactic))
LowerContents(msgs) == [k \in 1..Len(msgs) |-> lower(msgs[k].content)]
analyze_tactics(conversation) ==
    LET scammer_text == JoinSpace(LowerContents(SelectSeq(conversation, IsScammer)))
    IN SelectSeq(Tactics, LAMBDA tactic : HasTactic(scammer_text, tactic))

\* generate_report.  The timestamp and the duration, which are readings of
\* the clock, are left out.
generate_report(conversation_id, scam_type, confidence, conversation, persona_used, fails, order) ==
    [conversation_id |-> conversation_id,
     scam_type |-> scam_type,
     confidence_score |-> confidence,
     extracted_intelligence |-> extract_all(conversation, fails, order),
     conversation_summary |->
        [total_messages |-> Len(conversation),
         persona_used |-> persona_used,
         key_tactics |-> analyze_tactics(conversation)],
     full_transcript |-> conversation]

\* ----------------------------------------------------------- orchestrator

\* Python's truth value of an optional string
Truthy(s) == s # None /\ s # ""
\* str.strip()
strip(t) ==
    LET kept == {i \in 1..Len(t) : t[i] \notin SpaceSet}
    IN IF kept = {} THEN <<>>
       ELSE SubSeq(t, CHOOSE i \in kept : \A j \in kept : i <= j,
                      CHOOSE i \in kept : \A j \in kept : i >= j)

\* the configuration file's  detection: min_confidence_threshold
min_confidence_threshold == 70
\* yaml.safe_load of the configuration file
LoadConfig(default_persona, max_conversation_turns, use_simulator) ==
    [agent |-> [default_persona |-> default_persona,
                max_conversation_turns |-> max_conversation_turns,
                enable_typos |-> FALSE],
     api |-> [use_simulator |-> use_simulator],
     detection |-> [min_confidence_threshold |-> min_confidence_threshold]]

\* engage_scammer of api_server.py:
\*   if persona: honeypot.config['agent']['default_persona'] = persona
Override(cfg, persona) ==
    IF Truthy(persona) THEN [cfg EXCEPT !.agent.default_persona = persona] ELSE cfg

\* the texts of the requests to the servers: scams above the threshold (the
\* second is the message of test_first_message), a scam below it, and no
\* scams (the second is the message of test_non_scam_message)
E_Scam ==
    <<"a","c","c","o","u","n","t"," ","b","l","o","c","k","e","d"," ",
      "V","e","r","i","f","y"," ","I","M","M","E","D","I","A","T","E",
      "L","Y">>
G_Scam ==
    <<"Y","o","u","r"," ","b","a","n","k"," ","a","c","c","o","u","n",
      "t"," ","w","i","l","l"," ","b","e"," ","b","l","o","c","k","e",
      "d"," ","t","o","d","a","y","."," ","V","e","r","i","f","y"," ",
      "i","m","m","e","d","i","a","t","e","l","y"," ","b","y"," ","s",
      "e","n","d","i","n","g"," ","y","o","u","r"," ","U","P","I"," ",
      "P","I","N",".">>
E_Low ==
    <<"a","c","c","o","u","n","t"," ","b","l","o","c","k","e","d"," ",
      "h","t","t","p",":","/","/","a",".","t","k"," ","+","9","1","9",
      "8","7","6","5","4","3","2","1","0"," ","N","O","W">>
E_Benign ==
    <<"m","e","e","t","i","n","g"," ","r","e","m","i","n","d","e","r">>
G_Hello ==
    <<"H","e","l","l","o",","," ","h","o","w"," ","a","r","e"," ","y",
      "o","u"," ","t","o","d","a","y","?">>
RequestTexts == {E_Scam, G_Scam, E_Low, E_Benign, G_Hello}
\* honeypot.detector.detect on these texts, under the catalog of NoDetector
honeypot_detect ==
    [text \in RequestTexts |-> detect(text, [c \in Range(ScamTypes) |-> 100])]

\* the null byte, as a character of a text
NullByte == "NUL"
\* process_message:  max_length = 10000
max_length == 10000
\* process_message: the message truncated, cleared of null bytes and
\* stripped.  No message of the model reaches max_length.
Sanitized(msg) ==
    LET truncated == IF Len(msg) > max_length THEN SubSeq(msg, 1, max_length) ELSE msg
    IN strip(SelectSeq(truncated, LAMBDA c : c # NullByte))
\* (mutant) no confidence is below the threshold
NeverBelow(confidence, min_confidence) == FALSE
\* process_message:  if detection_result['confidence'] < min_confidence
BelowThreshold(confidence, min_confidence) == confidence < min_confidence

\* the states of a request in which its handler is running
InProgress == {"agent", "loop", "ended"}

\* POST /api/v1/engage up to the construction of the agent: the handler of
\* api_server.py, process_message and the first lines of engage_scammer
EngageRequest(a, data, pick) ==
    /\ phase[a] = "new"
    /\ request' = [request EXCEPT ![a] = data]
    /\ IF ~data.has_message
       THEN /\ phase' = [phase EXCEPT ![a] = "error"]
            /\ UNCHANGED <<config, detected, fileHasId, agentVars>>
       ELSE LET cfg == Override(config, data.persona)
                msg == Sanitized(data.message)
                detection_result == honeypot_detect[msg]
            IN /\ config' = cfg
               /\ IF ~data.is_text \/ data.message = <<>> \/ msg = <<>>
                  THEN /\ phase' = [phase EXCEPT ![a] = "error"]
                       /\ UNCHANGED <<detected, fileHasId, agentVars>>
                  ELSE /\ detected' = [detected EXCEPT ![a] = Some(detection_result)]
                       /\ IF \/ ~detection_result.is_scam
                             \/ BelowThreshold(detection_result.confidence,
                                               cfg.detection.min_confidence_threshold)
                          THEN /\ phase' = [phase EXCEPT ![a] = "ignored"]
                               /\ UNCHANGED <<fileHasId, agentVars>>
                          ELSE /\ phase' = [phase EXCEPT ![a] = "agent"]
                               /\ NewAgent(a, cfg.agent.default_persona, cfg.agent, pick)
    /\ UNCHANGED <<configured_persona, loop_turn, sessions, report>>

\* APISimulator.scam_templates: the templates of the scam type the
\* engagements of the model are detected as (the other five types have
\* templates of their own)
TemplateKeys ==
    {"banking_fraud", "prize_lottery", "tech_support", "impersonation",
     "investment_crypto", "upi_payment"}
T_Alert ==
    <<"A","l","e","r","t","!"," ","U","n","a","u","t","h","o","r","i",
      "z","e","d"," ","t","r","a","n","s","a","c","t","i","o","n"," ",
      "d","e","t","e","c","t","e","d","."," ","C","o","n","f","i","r",
      "m"," ","y","o","u","r"," ","i","d","e","n","t","i","t","y"," ",
      "b","y"," ","s","e","n","d","i","n","g"," ","O","T","P"," ","t",
      "o"," ","v","e","r","i","f","y","@","s","c","a","m",".","c","o",
      "m">>
T_Pin ==
    <<"W","h","a","t"," ","i","s"," ","y","o","u","r"," ","A","T","M",
      " ","P","I","N","?"," ","W","e"," ","n","e","e","d"," ","i","t",
      " ","t","o"," ","u","n","b","l","o","c","k"," ","y","o","u","r",
      " ","a","c","c","o","u","n","t",".">>
T_Upi ==
    <<"S","e","n","d"," ","m","o","n","e","y"," ","t","o"," ","U","P",
      "I"," ","I","D",":"," ","s","c","a","m","m","e","r","@","p","a",
      "y","t","m"," ","t","o"," ","a","c","t","i","v","a","t","e"," ",
      "y","o","u","r"," ","a","c","c","o","u","n","t",".">>
scam_templates(scam_type) ==
    CASE scam_type = "banking_fraud" ->
            [initial |-> {T_Alert}, followup |-> {T_Pin, T_Upi}]

\* APISimulator.start_conversation: the scam type of the session
SimScamType(scam_type, pick) ==
    IF scam_type = None \/ scam_type \notin TemplateKeys THEN pick ELSE scam_type
\* get_scammer_response:  if session['turn_count'] > 10: return None
SimulatorTurns == 10
SimulatorSilent(turn_count) == turn_count > SimulatorTurns

\* engage_scammer from the start of the session to the agent's first response
EngageStart(a, pick, initial, idx, typo, dots) ==
    /\ phase[a] = "agent"
    /\ LET scam_type == SimScamType(detected[a][1].scam_type, pick)
           initial_message ==
              IF config.api.use_simulator THEN initial
              ELSE Sanitized(request[a].message)
       IN /\ IF config.api.use_simulator
             THEN /\ initial \in scam_templates(scam_type).initial
                  /\ sessions' = [sessions EXCEPT
                        ![a] = Some([scam_type |-> scam_type, messages |-> 1,
                                     turn_count |-> 0])]
             ELSE /\ initial = <<>>
                  /\ UNCHANGED sessions
          /\ StartConversation(a, initial_message, current_persona[a], idx, typo, dots)
    /\ loop_turn' = [loop_turn EXCEPT ![a] = 0]
    /\ phase' = [phase EXCEPT
          ![a] = IF config.agent.max_conversation_turns = 0 THEN "ended" ELSE "loop"]
    /\ UNCHANGED <<config, configured_persona, request, detected, report>>

\* one iteration of engage_scammer's loop.  With the simulator the adversary
\* answers until its session has seen SimulatorTurns requests.  With the
\* MockScammerAPI client send_message raises ValueError: its session_id is
\* None, since only its start_conversation sets it and engage_scammer calls
\* that of the simulator alone; the exception leaves engage_scammer.
EngageTurn(a, followup, ask, idx, coin, typo, dots) ==
    /\ phase[a] = "loop"
    /\ loop_turn' = [loop_turn EXCEPT ![a] = @ + 1]
    /\ IF config.api.use_simulator
       THEN LET session == sessions[a][1]
                turn_count == session.turn_count + 1
            IN IF SimulatorSilent(turn_count)
               THEN /\ followup = <<>>
                    /\ sessions' = [sessions EXCEPT
                          ![a] = Some([session EXCEPT !.messages = @ + 1,
                                                      !.turn_count = turn_count])]
                    /\ phase' = [phase EXCEPT ![a] = "ended"]
                    /\ ask = FALSE /\ idx = 1 /\ coin = FALSE /\ typo = FALSE /\ dots = FALSE
                    /\ UNCHANGED <<fileHasId, agentVars>>
               ELSE /\ followup \in scam_templates(session.scam_type).followup
                    /\ sessions' = [sessions EXCEPT
                          ![a] = Some([session EXCEPT !.messages = @ + 2,
                                                      !.turn_count = turn_count])]
                    /\ GenerateResponse(a, followup, ask, idx, coin, typo, dots)
                    /\ phase' = [phase EXCEPT
                          ![a] = IF \/ ret'[a] = NoReply
                                    \/ loop_turn'[a] = config.agent.max_conversation_turns
                                 THEN "ended" ELSE "loop"]
       ELSE /\ followup = <<>>
            /\ ask = FALSE /\ idx = 1 /\ coin = FALSE /\ typo = FALSE /\ dots = FALSE
            /\ phase' = [phase EXCEPT ![a] = "raised"]
            /\ UNCHANGED <<sessions, fileHasId, agentVars>>
    /\ UNCHANGED <<config, configured_persona, request, detected, report>>

\* engage_scammer after the loop: the session is ended and the report made
EngageReport(a, fails, order) ==
    /\ phase[a] = "ended"
    /\ sessions' = IF config.api.use_simulator /\ sessions[a] # Nil
                   THEN [sessions EXCEPT ![a] = Nil] ELSE sessions
    /\ report' = [report EXCEPT
          ![a] = Some(generate_report(a, detected[a][1].scam_type,
                                      detected[a][1].confidence,
                                      conversation_history[a], PersonaId(a),
                                      fails, order))]
    /\ phase' = [phase EXCEPT ![a] = "reported"]
    /\ UNCHANGED <<config, configured_persona, request, detected, loop_turn,
                   fileHasId, agentVars>>

\* ------------------------------------------------------------ GUVI server

\* the threads of the server that handle one request each, and the session ids
Handlers == {"h1", "h2", "h3"}
SessionIds == {"s1"}

\* API_KEY = os.getenv('HONEYPOT_API_KEY', 'your-secret-api-key-here')
API_KEY == "your-secret-api-key-here"
\* (mutant) any key that is sent is accepted
KeyPresent(api_key) == Truthy(api_key)
\* verify_api_key, of the x-api-key header (None: no such header)
verify_api_key(api_key) == ~(~Truthy(api_key) \/ api_key # API_KEY)

suspicious_words ==
    <<<<"u","r","g","e","n","t">>,
      <<"i","m","m","e","d","i","a","t","e","l","y">>,
      <<"v","e","r","i","f","y">>,
      <<"c","o","n","f","i","r","m">>,
      <<"a","c","c","o","u","n","t"," ","b","l","o","c","k","e","d">>,
      <<"s","u","s","p","e","n","d","e","d">>,
      <<"e","x","p","i","r","e">>,
      <<"c","l","i","c","k"," ","h","e","r","e">>,
      <<"u","p","d","a","t","e"," ","n","o","w">>,
      <<"v","e","r","i","f","y"," ","n","o","w">>,
      <<"l","i","m","i","t","e","d"," ","t","i","m","e">>,
      <<"a","c","t"," ","n","o","w">>,
      <<"c","o","n","g","r","a","t","u","l","a","t","i","o","n","s">>,
      <<"w","i","n","n","e","r">>,
      <<"p","r","i","z","e">>,
      <<"l","o","t","t","e","r","y">>,
      <<"r","e","w","a","r","d">>,
      <<"c","l","a","i","m">>,
      <<"f","r","e","e">>,
      <<"o","f","f","e","r">>,
      <<"d","e","a","l">>,
      <<"p","o","l","i","c","e">>,
      <<"a","r","r","e","s","t">>,
      <<"l","e","g","a","l"," ","a","c","t","i","o","n">>,
      <<"c","o","u","r","t">>,
      <<"f","i","n","e">>,
      <<"t","a","x">>,
      <<"r","e","f","u","n","d">>,
      <<"p","a","y","m","e","n","t">>,
      <<"t","r","a","n","s","f","e","r">>,
      <<"s","e","n","d"," ","m","o","n","e","y">>>>
extract_suspicious_keywords(text) ==
    SelectSeq(suspicious_words, LAMBDA word : Contains(lower(text), word))
\* extract_suspicious_keywords on the texts of the requests
request_keywords == [text \in RequestTexts |-> extract_suspicious_keywords(text)]

\* get_or_create_session: the dict of a new session (start_time, a reading
\* of the clock, is left out)
NewSession(session_id) ==
    [session_id |-> session_id,
     conversation_history |-> <<>>,
     scam_detected |-> FALSE,
     scam_type |-> None,
     confidence |-> 0,
     agent |-> None,
     persona |-> None,
     total_messages |-> 0,
     intelligence |-> [bankAccounts |-> <<>>, upiIds |-> <<>>, phishingLinks |-> <<>>,
                       phoneNumbers |-> <<>>, suspiciousKeywords |-> <<>>],
     agent_notes |-> <<>>]

\* " | ".join(notes)
RECURSIVE JoinBar(_)
JoinBar(ts) ==
    IF Len(ts) = 0 THEN <<>>
    ELSE IF Len(ts) = 1 THEN ts[1]
    ELSE ts[1] \o <<" ", "|", " ">> \o JoinBar(Tail(ts))
\* send_final_result: the payload
Payload(session_id, session) ==
    [sessionId |-> session_id,
     scamDetected |-> session.scam_detected,
     totalMessagesExchanged |-> session.total_messages,
     extractedIntelligence |-> session.intelligence,
     agentNotes |-> IF session.agent_notes # <<>> THEN JoinBar(session.agent_notes)
                    ELSE
    <<"C","o","n","v","e","r","s","a","t","i","o","n"," ","c","o","m",
      "p","l","e","t","e","d">>]
NoPayload == Nil

\* jsonify(...), code
Respond(code, status, reply) == [code |-> code, status |-> status, reply |-> reply]
NoResponse == Respond(0, "", "")
\* the handler h returns
Return(h, res) ==
    /\ http_response' = [http_response EXCEPT ![h] = res]
    /\ pc' = [pc EXCEPT ![h] = "done"]
Goto(h, label) ==
    /\ pc' = [pc EXCEPT ![h] = label]
    /\ UNCHANGED http_response

\* the server hands a request to a handler
Receive(h, req) ==
    /\ pc[h] = "idle"
    /\ http_request' = [http_request EXCEPT ![h] = req]
    /\ Goto(h, "verify")
    /\ UNCHANGED <<handler_session, handler_detection, payload, heap,
                   active_sessions, callbacks>>

\* the first statements of honeypot_endpoint, list_sessions, get_session and
\* end_session:
\* the API key is verified, and honeypot_endpoint validates the body
Verify(h) ==
    /\ pc[h] = "verify"
    /\ LET req == http_request[h]
       IN IF ~verify_api_key(req.key)
          THEN Return(h, Respond(401, "error", "Unauthorized"))
          ELSE IF req.kind = "honeypot" /\ ~req.has_message
          THEN Return(h, Respond(400, "error", "Missing required field: message"))
          ELSE Goto(h, "lookup")
    /\ UNCHANGED <<http_request, handler_session, handler_detection, payload, heap,
                   active_sessions, callbacks>>

\* get_or_create_session:  if session_id not in active_sessions.  An existing
\* session is returned; of its total_messages honeypot_endpoint then finds 0
\* and takes the first-message path: total_messages is raised at the end of
\* that path alone, which no handler reaches (see FirstRecord).
HoneypotLookup(h) ==
    /\ pc[h] = "lookup"
    /\ http_request[h].kind = "honeypot"
    /\ LET found == active_sessions[http_request[h].sessionId]
       IN IF found = Nil
          THEN /\ Goto(h, "create")
               /\ UNCHANGED handler_session
          ELSE /\ handler_session' = [handler_session EXCEPT ![h] = found]
               /\ heap[found[1]].total_messages = 0
               /\ Goto(h, "first")
    /\ UNCHANGED <<http_request, handler_detection, payload, heap, active_sessions,
                   callbacks>>

\* get_or_create_session: the new dict is stored under the session id, and
\* what is stored there is returned
HoneypotCreate(h) ==
    /\ pc[h] = "create"
    /\ heap' = [heap EXCEPT ![h] = NewSession(http_request[h].sessionId)]
    /\ active_sessions' = [active_sessions EXCEPT ![http_request[h].sessionId] = Some(h)]
    /\ handler_session' = [handler_session EXCEPT ![h] = Some(h)]
    /\ Goto(h, "first")
    /\ UNCHANGED <<http_request, handler_detection, payload, callbacks>>

\* the first-message path: detect, and  session['scam_detected'] = ...
FirstDetect(h) ==
    /\ pc[h] = "first"
    /\ LET detection_result == honeypot_detect[http_request[h].text]
       IN /\ handler_detection' = [handler_detection EXCEPT ![h] = detection_result]
          /\ heap' = [heap EXCEPT
                ![handler_session[h][1]].scam_detected = detection_result.is_scam]
    /\ Goto(h, "record")
    /\ UNCHANGED <<http_request, handler_session, payload, active_sessions, callbacks>>

\* (mutant) the links of the first message are recorded too
FirstIntelligenceLinks(intelligence, text) ==
    [intelligence EXCEPT !.suspiciousKeywords = @ \o request_keywords[text],
                         !.phishingLinks = @ \o extract_urls(text, "forward")]
\* the first-message path:  keywords = extract_suspicious_keywords(...),
\* session['intelligence']['suspiciousKeywords'].extend(keywords); the
\* extractor is not called
FirstIntelligence(intelligence, text) ==
    [intelligence EXCEPT !.suspiciousKeywords = @ \o request_keywords[text]]
\* the first-message path from  session['scam_type'] = ...  on.  A message
\* that is a scam at or above the threshold gets as far as
\* honeypot._select_persona(...): ScamHoneypot has no such attribute, the
\* AttributeError is caught by  except Exception  and answered with 500.
FirstRecord(h) ==
    /\ pc[h] = "record"
    /\ LET detection_result == handler_detection[h]
       IN /\ heap' = [heap EXCEPT
                ![handler_session[h][1]] =
                    [@ EXCEPT !.scam_type = detection_result.scam_type,
                              !.confidence = detection_result.confidence,
                              !.intelligence =
                                  FirstIntelligence(@, http_request[h].text)]]
          /\ IF ~detection_result.is_scam
             THEN Return(h, Respond(200, "success", "Thank you for your message."))
             ELSE IF detection_result.confidence < config.detection.min_confidence_threshold
             THEN Return(h, Respond(200, "success", "I see. Thank you."))
             ELSE Return(h, Respond(500, "error", "Internal server error"))
    /\ UNCHANGED <<http_request, handler_session, handler_detection, payload,
                   active_sessions, callbacks>>

\* end_session and the first half of send_final_result: the session is
\* looked up and the payload built
EndLookup(h) ==
    /\ pc[h] = "lookup"
    /\ http_request[h].kind = "end"
    /\ LET session_id == http_request[h].sessionId
           found == active_sessions[session_id]
       IN IF found = Nil
          THEN /\ Return(h, Respond(404, "error", "Session not found"))
               /\ UNCHANGED <<handler_session, payload>>
          ELSE /\ handler_session' = [handler_session EXCEPT ![h] = found]
               /\ payload' = [payload EXCEPT
                     ![h] = Some(Payload(session_id, heap[found[1]]))]
               /\ Goto(h, "post")
    /\ UNCHANGED <<http_request, handler_detection, heap, active_sessions, callbacks>>

\* how requests.post ends: status 200, another status, Timeout, another
\* exception
PostOutcomes == {"200", "status", "Timeout", "Exception"}
\* (mutant) an exception of the post leaves send_final_result
AfterPostRaising(outcome) ==
    IF outcome \in {"Timeout", "Exception"} THEN "done" ELSE "cleanup"
\* send_final_result, where it goes on after requests.post: the status is
\* only logged, Timeout and Exception are caught and logged
AfterPost(outcome) ==
    CASE outcome = "200" -> "cleanup"
      [] outcome = "status" -> "cleanup"
      [] outcome = "Timeout" -> "cleanup"
      [] outcome = "Exception" -> "cleanup"
\* send_final_result: requests.post(GUVI_CALLBACK_URL, json=payload)
EndPost(h, outcome) ==
    /\ pc[h] = "post"
    /\ callbacks' = Append(callbacks, [session |-> handler_session[h][1],
                                       payload |-> payload[h][1],
                                       outcome |-> outcome])
    /\ Goto(h, AfterPost(outcome))
    /\ UNCHANGED <<http_request, handler_session, handler_detection, payload, heap,
                   active_sessions>>

\* send_final_result: the session is deleted if it is still there;
\* end_session returns
EndCleanup(h) ==
    /\ pc[h] = "cleanup"
    /\ active_sessions' = [active_sessions EXCEPT ![http_request[h].sessionId] = Nil]
    /\ Return(h, Respond(200, "success", "ended and final result sent"))
    /\ UNCHANGED <<http_request, handler_session, handler_detection, payload, heap,
                   callbacks>>

\* list_sessions: the number of active sessions and their summaries
ListRead(h) ==
    /\ pc[h] = "lookup"
    /\ http_request[h].kind = "list"
    /\ LET listed == {s \in SessionIds : active_sessions[s] # Nil}
       IN Return(h, Respond(200, "sessions",
                    [active_sessions |-> Cardinality(listed),
                     sessions |-> [s \in listed |-> heap[active_sessions[s][1]]]]))
    /\ UNCHANGED <<http_request, handler_session, handler_detection, payload, heap,
                   active_sessions, callbacks>>

\* get_session: the details of the session
GetRead(h) ==
    /\ pc[h] = "lookup"
    /\ http_request[h].kind = "get"
    /\ LET found == active_sessions[http_request[h].sessionId]
       IN IF found = Nil
          THEN Return(h, Respond(404, "error", "Session not found"))
          ELSE Return(h, Respond(200, "details", heap[found[1]]))
    /\ UNCHANGED <<http_request, handler_session, handler_detection, payload, heap,
                   active_sessions, callbacks>>

\* --------------------------------------------------------- MockScammerAPI

\* timedelta(minutes=1), in seconds
Minute == 60
\* _make_request_with_retry's max_retries
max_retries == 3

\* MockScammerAPI.__init__: the rate limit settings
NewClient(rate_limit_enabled, requests_per_minute, backoff_factor) ==
    [rate_limit_enabled |-> rate_limit_enabled,
     requests_per_minute |-> requests_per_minute,
     backoff_factor |-> backoff_factor]

\* _wait_for_rate_limit: the request times older than a minute are dropped
RECURSIVE DropOld(_, _)
DropOld(now, times) ==
    IF times # <<>> /\ now - times[1] > Minute THEN DropOld(now, Tail(times))
    ELSE times
\* deque(maxlen=maxlen).append
AppendMax(times, t, maxlen) ==
    IF maxlen = 0 THEN times
    ELSE IF Len(times) >= maxlen THEN Append(Tail(times), t)
    ELSE Append(times, t)
\* _wait_for_rate_limit: the seconds slept, given the request times kept
WaitSeconds(now, times, requests_per_minute) ==
    IF Len(times) >= requests_per_minute
    THEN LET wait_seconds == times[1] + Minute - now
         IN IF wait_seconds > 0 THEN wait_seconds ELSE 0
    ELSE 0
\* _wait_for_rate_limit, called at the time now: the seconds slept and the
\* request times afterwards.  What is recorded is now, read before the sleep.
wait_for_rate_limit(cl, now, times) ==
    IF ~cl.rate_limit_enabled THEN [slept |-> 0, request_times |-> times]
    ELSE LET kept == DropOld(now, times)
         IN [slept |-> WaitSeconds(now, kept, cl.requests_per_minute),
             request_times |-> AppendMax(kept, now, cl.requests_per_minute)]

\* how an attempt ends: a response that passes raise_for_status, a response
\* with status 429, a response with another error status (raise_for_status
\* raises HTTPError), no response (ConnectionError, Timeout)
Outcomes == {"ok", "429", "error", "exception"}
\* the outcomes that raise a RequestException
Raises(outcome) == outcome \in {"error", "exception"}
\* (mutant) the wait grows linearly
BackoffLinear(backoff_factor, k) == backoff_factor * k
\* self.backoff_factor ** attempt
Backoff(backoff_factor, k) == backoff_factor ^ k

\* how a call stands: not made, running, returned the response of attempt
\* 'of', raised (the exception of attempt 'of', or a new RequestException
\* with the message 'what')
CallResult(status, of, what) == [status |-> status, of |-> of, what |-> what]
NoCall == CallResult("none", 0, "")

\* _make_request_with_retry is called
MakeRequest ==
    /\ call_result.status # "running"
    /\ attempt' = 0
    /\ outcomes' = <<>>
    /\ waits' = <<>>
    /\ call_result' = CallResult("running", 0, "")
    /\ UNCHANGED <<client, clock, request_times, issued>>

\* one iteration of _make_request_with_retry's loop: the rate limit is
\* waited for, the request sent, and its outcome handled; after the last
\* iteration that continues, the loop is left and the exception raised
Attempt(outcome) ==
    /\ call_result.status = "running"
    /\ LET limited == wait_for_rate_limit(client, clock, request_times)
           sent == clock + limited.slept
           last == attempt = max_retries - 1
           wait_time == Backoff(client.backoff_factor, attempt)
           sleeps == outcome = "429" \/ (Raises(outcome) /\ ~last)
       IN /\ request_times' = limited.request_times
          /\ issued' = Append(issued, sent)
          /\ outcomes' = Append(outcomes, outcome)
          /\ waits' = IF sleeps
                      THEN Append(waits, [after |-> attempt, seconds |-> wait_time])
                      ELSE waits
          /\ clock' = IF sleeps THEN sent + wait_time ELSE sent
          /\ attempt' = IF sleeps /\ ~last THEN attempt + 1 ELSE attempt
          /\ call_result' =
                IF outcome = "ok" THEN CallResult("returned", attempt, outcome)
                ELSE IF Raises(outcome) /\ last
                THEN CallResult("raised", attempt, outcome)
                ELSE IF last
                THEN CallResult("raised", max_retries, "Max retries exceeded")
                ELSE call_result
    /\ UNCHANGED client

\* time passes between two calls
Tick(seconds) ==
    /\ call_result.status # "running"
    /\ clock' = clock + seconds
    /\ UNCHANGED <<client, request_times, issued, attempt, outcomes, waits, call_result>>

\* ------------------------------------------------------------ the bounds

\* no call is made once the client has sent this many requests less max_retries
MaxIssued == 6
\* no time passes between calls beyond this reading of the clock
MaxClock == 120
\* the largest max_conversation_turns a configuration sets
MaxTurnsBound == 2
\* no call is made on a history of this many messages or more
MaxHistory == 4
\* the same, where two conversations run side by side
MaxHistoryTwo == 3
\* no call is made on the history of a short conversation of this many messages or more
MaxHistoryShort == 3
\* the max_conversation_turns of a long conversation
MaxTurnsLong == 5
\* no call is made on a long conversation's history of this many messages or more
MaxHistoryLong == 9
\* the number of words of the longest message handed to detect
MaxWords == 3
\* the number of messages of the longest transcript handed to extract_all
MaxTranscript == 2
\* the longest candidate list (generate_detail_request's)
MaxIdx == 6
\* the max_conversation_turns of an engagement that outlasts the simulator
MaxTurnsEngage == 12

\* the adversary's messages
M_PayNow == <<"P","a","y"," ","N","O","W">>
M_Hello == <<"h","e","l","l","o">>
ConvMessages == {M_PayNow, M_Hello}
\* messages with the words of several categories, of one, and of none
M_Threat ==
    <<"P","o","l","i","c","e",":"," ","y","o","u"," ","W","O","N",","," ","s","e","n","d">>
M_Prize ==
    <<"l","o","t","t","e","r","y"," ","m","o","n","e","y"," ","t","r","a","n","s","f","e","r"," ","h","t","t","p",":","/","/","x">>
M_Send ==
    <<"s","e","n","d"," ","v","i","a"," ","l","i","n","k">>
M_Link ==
    <<"H","T","T","P",":","/","/","x">>
CategoryMessages == {M_PayNow, M_Threat, M_Prize, M_Send, M_Link, M_Hello}

\* config['agent']
Configs(turns, typos) ==
    {[max_conversation_turns |-> n, enable_typos |-> t] : n \in turns, t \in typos}

InitAgents(hasIds) ==
    /\ fileHasId \in hasIds
    /\ created = {}
    /\ personas = [a \in Agents |-> <<>>]
    /\ current_persona = [a \in Agents |-> None]
    /\ max_turns = [a \in Agents |-> 0]
    /\ enable_typos = [a \in Agents |-> FALSE]
    /\ conversation_history = [a \in Agents |-> <<>>]
    /\ turn_number = [a \in Agents |-> 0]
    /\ intelligence_extracted = [a \in Agents |-> FALSE]
    /\ ret = [a \in Agents |-> NoReply]

NextAgents(agents, configs, msgs, maxHist) ==
    \/ \E a \in agents, n \in RequestedNames, cfg \in configs, pick \in PersonaKeys :
          /\ n \in PersonaKeys => pick = n
          /\ NewAgent(a, n, cfg, pick)
    \/ \E a \in agents, m \in msgs, pick \in PersonaKeys, idx \in 1..MaxIdx :
          \E typo \in TouchCoins(enable_typos[a]), dots \in TouchCoins(enable_typos[a]) :
             /\ Len(conversation_history[a]) < maxHist
             /\ NeedsSelect(a) \/ pick = current_persona[a]
             /\ StartConversation(a, m, pick, idx, typo, dots)
    \/ \E a \in agents, m \in msgs, ask \in BOOLEAN, idx \in 1..MaxIdx, coin \in BOOLEAN :
          \E typo \in TouchCoins(enable_typos[a]), dots \in TouchCoins(enable_typos[a]) :
             /\ Len(conversation_history[a]) < maxHist
             /\ GenerateResponse(a, m, ask, idx, coin, typo, dots)

\* the words a message to detect is made of
DetectWords ==
    {<<"a","c","c","o","u","n","t"," ","b","l","o","c","k","e","d">>,
     <<"V","e","r","i","f","y"," ","I","M","M","E","D","I","A","T","E","L","Y">>,
     <<"w","o","n"," ","p","r","i","z","e">>,
     <<"p","o","l","i","c","e"," ","o","f","f","i","c","e","r">>,
     <<"m","e","e","t","i","n","g"," ","r","e","m","i","n","d","e","r">>,
     <<"c","l","i","c","k"," ","h","e","r","e"," ","H","T","T","P",":","/","/","1",".","2",".","3",".","4","/","b","i","t",".","l","y">>,
     <<"h","t","t","p",":","/","/","a",".","t","k"," ","+","9","1","9","8","7","6","5","4","3","2","1","0"," ","N","O","W">>}
\* the messages that are only whitespace
WhitespaceMessages == {<<" ">>, <<" ", "\t", "\n">>}
\* the messages of at most n words
Messages(words, n) == {JoinSpace(ws) : ws \in UNION {[1..k -> words] : k \in 0..n}}
\* the confidence weights of three catalogs, in hundredths.  They are binary
\* fractions (0.75, 1.0, 1.25): with them and the scores of this catalog
\* Python's float arithmetic gives exactly the values computed here.
WeightTables ==
    {[c \in Range(ScamTypes) |-> 100],
     [banking_fraud |-> 75, prize_lottery |-> 100, impersonation |-> 125],
     [banking_fraud |-> 125, prize_lottery |-> 100, impersonation |-> 75]}

\* what the adversary and the agent write in an extracted transcript
X_Upi ==
    <<"f","r","a","u","d","@","p","a","y","t","m"," ","b","o","b","@",
      "s","b","i",".","c","o"," ","f","r","a","u","d","@","p","a","y",
      "t","m"," ","a","b","c","d","0","1","2","3","4","5","6">>
X_Mail ==
    <<"j","o","e","@","g","m","a","i","l",".","c","o","m"," ","a","n",
      "n","@","p","a","y","t","m",".","i","n"," ","0","9","8","7","6",
      "5","4","3","2","1","0"," ","+","9","1","9","8","7","6","5","4",
      "3","2","1","0">>
X_Url ==
    <<"h","t","t","p",":","/","/","a",".","t","k"," ","H","T","T","P",
      ":","/","/","b",".","i","o"," ","h","t","t","p",":","/","/","a",
      ".","t","k"," ","1","2","3","4","5","6","7","8","9","0","1","2",
      "3"," ","s","b","i","n","0","0","0","1","2","3","4">>
X_Coin ==
    <<"0","x","5","2","9","0","8","4","0","0","0","9","8","5","2","7",
      "8","8","6","E","0","F","7","0","3","0","0","6","9","8","5","7",
      "D","2","E","4","1","6","9","E","E","7"," ","1","A","1","z","P",
      "1","e","P","5","Q","G","e","f","i","2","D","M","P","T","f","T",
      "L","5","S","L","m","v","7","D","i","v","f","N","a"," ","0","x",
      "5","2","9","0","8","4","0","0","0","9","8","5","2","7","8","8",
      "6","E","0","F","7","0","3","0","0","6","9","8","5","7","D","2",
      "E","4","1","6","9","E","E","7">>
ExtractTexts == {X_Upi, X_Mail, X_Url, X_Coin}
Roles == {"scammer", "agent"}
ExtractMessages == {[role |-> r, content |-> c] : r \in Roles, c \in ExtractTexts}
\* the transcripts of at most n messages
Transcripts(n) == UNION {[1..k -> ExtractMessages] : k \in 0..n}

\* the requests to engage
\* the messages: a scam above the threshold, one below it, no scam, whitespace
EngageMessages == {E_Scam, E_Low, E_Benign, <<" ">>}
\* the messages without text: whitespace around a null byte, the empty string
BlankMessages == {<<" ", NullByte, "\t">>, <<>>}
EngagePersonas == {None, "busy_professional", "no_such_persona"}
\* the personas random.choice draws in an engagement
EngagePicks == {"elderly_user", "worried_parent"}
EngageRequests ==
    {[has_message |-> TRUE, is_text |-> TRUE, message |-> msg, persona |-> p] :
        msg \in EngageMessages, p \in EngagePersonas}
    \cup {[has_message |-> TRUE, is_text |-> TRUE, message |-> msg, persona |-> None] :
            msg \in BlankMessages}
    \cup {[has_message |-> TRUE, is_text |-> FALSE, message |-> <<>>, persona |-> None]}
    \cup {[has_message |-> FALSE, is_text |-> FALSE, message |-> <<>>, persona |-> p] :
            p \in EngagePersonas}
NoRequest == [has_message |-> FALSE, is_text |-> FALSE, message |-> <<>>, persona |-> None]

\* the requests to the GUVI server: the messages of test_first_message and
\* test_non_scam_message and a scam below the threshold; a body without a
\* message; the right key, a wrong one and none
HoneypotRequest(key, has_message, text) ==
    [kind |-> "honeypot", key |-> key, sessionId |-> "s1",
     has_message |-> has_message, text |-> text]
SessionRequest(kind, key) ==
    [kind |-> kind, key |-> key, sessionId |-> "s1", has_message |-> FALSE, text |-> <<>>]
ApiKeys == {None, "wrong-key", API_KEY}
HoneypotRequests ==
    {HoneypotRequest(API_KEY, TRUE, text) : text \in {G_Scam, E_Low, G_Hello}}
    \cup {HoneypotRequest(API_KEY, FALSE, <<>>)}
    \cup {HoneypotRequest(key, TRUE, G_Scam) : key \in ApiKeys}
SessionRequests ==
    {SessionRequest(kind, key) : kind \in {"end", "get"}, key \in ApiKeys}
    \cup {SessionRequest("list", key) : key \in {None, API_KEY}}
\* the first handler serves the honeypot endpoint, the second either, the
\* last the session endpoints and one more message
GuviRequests(h) ==
    CASE h = "h1" -> HoneypotRequests
      [] h = "h2" -> HoneypotRequests \cup SessionRequests
      [] h = "h3" -> SessionRequests \cup {HoneypotRequest(API_KEY, TRUE, E_Low)}
NoHandlers ==
    /\ http_request = [h \in Handlers |-> SessionRequest("none", None)]
    /\ pc = [h \in Handlers |-> "idle"]
    /\ handler_session = [h \in Handlers |-> Nil]
    /\ handler_detection = [h \in Handlers |-> NoDetection]
    /\ payload = [h \in Handlers |-> NoPayload]
    /\ http_response = [h \in Handlers |-> NoResponse]
    /\ heap = [h \in Handlers |-> NewSession(None)]
    /\ active_sessions = [s \in SessionIds |-> Nil]
    /\ callbacks = <<>>

\* the settings of the MockScammerAPI client, and the seconds that pass
\* between its calls
Clients ==
    {NewClient(enabled, requests_per_minute, 2) :
        enabled \in BOOLEAN, requests_per_minute \in {1, 2}}
ClockSteps == {Minute}
InitClient(clients) ==
    /\ client \in clients
    /\ clock = 0
    /\ request_times = <<>>
    /\ issued = <<>>
    /\ attempt = 0
    /\ outcomes = <<>>
    /\ waits = <<>>
    /\ call_result = NoCall
NoClient == InitClient({NewClient(TRUE, 10, 2)})
NoEngagements ==
    /\ request = [a \in Agents |-> NoRequest]
    /\ phase = [a \in Agents |-> "new"]
    /\ detected = [a \in Agents |-> Nil]
    /\ loop_turn = [a \in Agents |-> 0]
    /\ sessions = [a \in Agents |-> Nil]
    /\ report = [a \in Agents |-> Nil]
NoServers ==
    /\ config = LoadConfig(None, 1, TRUE)
    /\ configured_persona = None
    /\ NoEngagements
    /\ generated = Nil
    /\ NoHandlers
    /\ NoClient

\* what the adversary and the agent write in a reported transcript: words of
\* one tactic, of several, of none, and a tactic word inside another word
R_Now ==
    <<"P","a","y"," ","N","O","W">>
R_Know ==
    <<"I"," ","k","n","o","w">>
R_Police ==
    <<"P","o","l","i","c","e",":"," ","y","o","u","r"," ","B","a","n",
      "k"," ","a","c","c","o","u","n","t">>
R_Won ==
    <<"y","o","u"," ","w","o","n",","," ","c","o","n","f","i","r","m",
      " ","i","t">>
R_Plain ==
    <<"h","e","l","l","o">>
ReportTexts == {R_Now, R_Know, R_Police, R_Won, R_Plain}
ReportMessages == {[role |-> r, content |-> c] : r \in Roles, c \in ReportTexts}
\* the transcripts of at most n messages
ReportTranscripts(n) == UNION {[1..k -> ReportMessages] : k \in 0..n}

NoAgents == InitAgents({FALSE})
NoDetector ==
    /\ confidence_weight = [c \in Range(ScamTypes) |-> 100]
    /\ message = <<>>
    /\ detection = <<>>

NoExtractor ==
    /\ transcript = <<>>
    /\ parser_fails = FALSE
    /\ extractions = <<>>

\* one conversation
Init == NoServers /\ InitAgents({FALSE}) /\ NoDetector /\ NoExtractor
Next ==
    /\ NextAgents({"c1"}, Configs(1..MaxTurnsBound, {FALSE}), ConvMessages, MaxHistory)
    /\ UNCHANGED <<detectVars, extractVars, serverVars>>
Spec == Init /\ [][Next]_vars

\* two conversations side by side, each with its own agent and persona manager
InitPersonas == NoServers /\ InitAgents(BOOLEAN) /\ NoDetector /\ NoExtractor
NextPersonas ==
    /\ NextAgents(Agents, Configs({1}, {FALSE}), {M_PayNow}, MaxHistoryTwo)
    /\ UNCHANGED <<detectVars, extractVars, serverVars>>
SpecPersonas == InitPersonas /\ [][NextPersonas]_vars

\* one long conversation: the persona is asked for by name, the adversary
\* repeats one message, random.choice draws the first template
InitTurns == NoServers /\ InitAgents({FALSE}) /\ NoDetector /\ NoExtractor
NextTurns ==
    /\ \/ \E n \in PersonaKeys :
             NewAgent("c1", n, [max_conversation_turns |-> MaxTurnsLong,
                               enable_typos |-> FALSE], n)
       \/ /\ Len(conversation_history["c1"]) < MaxHistoryLong
          /\ StartConversation("c1", M_Hello, current_persona["c1"], 1, FALSE, FALSE)
       \/ \E ask \in BOOLEAN, coin \in BOOLEAN :
             /\ Len(conversation_history["c1"]) < MaxHistoryLong
             /\ GenerateResponse("c1", M_Hello, ask, 1, coin, FALSE, FALSE)
    /\ UNCHANGED <<detectVars, extractVars, serverVars>>
SpecTurns == InitTurns /\ [][NextTurns]_vars

\* one short conversation, the adversary's messages of every category
InitReplies == NoServers /\ InitAgents({FALSE}) /\ NoDetector /\ NoExtractor
NextReplies ==
    /\ \/ \E n \in PersonaKeys :
             NewAgent("c1", n, [max_conversation_turns |-> MaxTurnsBound,
                               enable_typos |-> FALSE], n)
       \/ \E idx \in 1..MaxIdx :
             /\ Len(conversation_history["c1"]) < MaxHistoryShort
             /\ StartConversation("c1", M_Hello, current_persona["c1"], idx, FALSE, FALSE)
       \/ \E m \in CategoryMessages, idx \in 1..MaxIdx, coin \in BOOLEAN :
             /\ Len(conversation_history["c1"]) < MaxHistoryShort
             /\ GenerateResponse("c1", m, FALSE, idx, coin, FALSE, FALSE)
    /\ UNCHANGED <<detectVars, extractVars, serverVars>>
SpecReplies == InitReplies /\ [][NextReplies]_vars

\* the detector, on one message under one catalog
InitDetect ==
    /\ NoServers
    /\ NoAgents
    /\ confidence_weight \in WeightTables
    /\ message \in Messages(DetectWords, MaxWords) \cup WhitespaceMessages
    /\ detection = <<>>
    /\ NoExtractor
NextDetect == Detect /\ UNCHANGED <<fileHasId, agentVars, extractVars, serverVars>>
SpecDetect == InitDetect /\ [][NextDetect]_vars

\* the extractor, called on one transcript
InitExtract ==
    /\ NoServers
    /\ NoAgents
    /\ NoDetector
    /\ transcript \in Transcripts(MaxTranscript)
    /\ parser_fails \in BOOLEAN
    /\ extractions = <<>>
NextExtract ==
    /\ \E order \in HashOrders : ExtractAll(order)
    /\ UNCHANGED <<fileHasId, agentVars, detectVars, serverVars>>
SpecExtract == InitExtract /\ [][NextExtract]_vars

\* one report, generated from one transcript
GenerateReport(fails, order) ==
    /\ generated = Nil
    /\ generated' = Some(generate_report("id", "banking_fraud", 72, transcript,
                                         "elderly_user", fails, order))
InitReport ==
    /\ NoServers /\ NoAgents /\ NoDetector
    /\ transcript \in ReportTranscripts(MaxTranscript)
    /\ parser_fails = FALSE
    /\ extractions = <<>>
NextReport ==
    /\ \E order \in HashOrders : GenerateReport(parser_fails, order)
    /\ UNCHANGED <<fileHasId, agentVars, detectVars, extractVars, engageVars, guviVars,
                   clientVars>>
SpecReport == InitReport /\ [][NextReport]_vars

\* the requests to engage, handled one after the other by one honeypot: two
\* where the conversations are short, one where it outlasts the simulator.
\* The agent's random draws are the first of each list.
InitEngage ==
    /\ InitAgents({FALSE}) /\ NoDetector /\ NoExtractor
    /\ configured_persona \in {None, "elderly_user"}
    /\ \E turns \in {0, 1, MaxTurnsEngage}, simulator \in BOOLEAN :
          /\ turns > 1 => simulator
          /\ config = LoadConfig(configured_persona, turns, simulator)
    /\ NoEngagements
    /\ generated = Nil
    /\ NoHandlers
    /\ NoClient
NextEngage ==
    /\ \/ \E a \in Agents, data \in EngageRequests, pick \in PersonaKeys :
             /\ \A b \in Agents \ {a} : phase[b] \notin InProgress
             /\ a = "c2" => /\ phase["c1"] # "new"
                            /\ config.agent.max_conversation_turns <= 1
             /\ LET name == Override(config, data.persona).agent.default_persona
                IN IF name \in PersonaKeys THEN pick = name ELSE pick \in EngagePicks
             /\ EngageRequest(a, data, pick)
       \/ \E a \in Agents, initial \in {<<>>, T_Alert} :
             EngageStart(a, "banking_fraud", initial, 1, FALSE, FALSE)
       \/ \E a \in Agents, followup \in {<<>>, T_Pin, T_Upi} :
             /\ config.agent.max_conversation_turns > 1 => followup # T_Upi
             /\ EngageTurn(a, followup, FALSE, 1, FALSE, FALSE, FALSE)
       \/ \E a \in Agents, fails \in BOOLEAN, order \in HashOrders :
             EngageReport(a, fails, order)
    /\ UNCHANGED <<detectVars, extractVars, generated, guviVars, clientVars>>
SpecEngage == InitEngage /\ [][NextEngage]_vars

\* the GUVI server: three requests, each served by a thread of its own; the
\* threads interleave between the steps
InitGuvi ==
    /\ InitAgents({FALSE}) /\ NoDetector /\ NoExtractor
    /\ config = LoadConfig(None, 1, TRUE)
    /\ configured_persona = None
    /\ NoEngagements
    /\ generated = Nil
    /\ NoHandlers
    /\ NoClient
NextGuvi ==
    /\ \/ \E h \in Handlers, req \in HoneypotRequests \cup SessionRequests :
             /\ req \in GuviRequests(h)
             /\ h = "h2" => pc["h1"] # "idle"
             /\ h = "h3" => pc["h2"] # "idle"
             /\ Receive(h, req)
       \/ \E h \in Handlers : Verify(h)
       \/ \E h \in Handlers : HoneypotLookup(h)
       \/ \E h \in Handlers : HoneypotCreate(h)
       \/ \E h \in Handlers : FirstDetect(h)
       \/ \E h \in Handlers : FirstRecord(h)
       \/ \E h \in Handlers : EndLookup(h)
       \/ \E h \in Handlers, outcome \in PostOutcomes : EndPost(h, outcome)
       \/ \E h \in Handlers : EndCleanup(h)
       \/ \E h \in Handlers : GetRead(h)
       \/ \E h \in Handlers : ListRead(h)
    /\ UNCHANGED <<fileHasId, agentVars, detectVars, extractVars, engageVars, generated,
                   clientVars>>
SpecGuvi == InitGuvi /\ [][NextGuvi]_vars

\* the MockScammerAPI client: calls of _make_request_with_retry, one after
\* the other, and the time between them
InitClients ==
    /\ InitAgents({FALSE}) /\ NoDetector /\ NoExtractor
    /\ config = LoadConfig(None, 1, FALSE)
    /\ configured_persona = None
    /\ NoEngagements
    /\ generated = Nil
    /\ NoHandlers
    /\ InitClient(Clients)
NextClients ==
    /\ \/ /\ Len(issued) + max_retries <= MaxIssued
          /\ MakeRequest
       \/ \E outcome \in Outcomes : Attempt(outcome)
       \/ \E seconds \in ClockSteps :
             /\ clock + seconds <= MaxClock
             /\ Tick(seconds)
    /\ UNCHANGED <<fileHasId, agentVars, detectVars, extractVars, engageVars, generated,
                   guviVars>>
SpecClients == InitClients /\ [][NextClients]_vars

\* ----------------------------------------------------------------- claims

\* C3: once generate_response has returned none because turn_number exceeds
\* max_turns, the conversation is terminal: it stays beyond the limit and every
\* later call on it returns none.
C3_TerminatedStaysTerminated ==
    [][\A a \in created :
          (TurnLimitReached(turn_number[a], max_turns[a]) /\ ret[a] = NoReply)
          => (TurnLimitReached(turn_number'[a], max_turns'[a]) /\ ret'[a] = NoReply)]_vars

\* C4: select_persona leaves every entry of the persona catalog as it was
\* loaded: no id is written onto a stored entry.
C4_CatalogUnchanged ==
    \A a \in created : personas[a] = LoadPersonas(fileHasId)

\* C5: in every step the id of an existing conversation's current persona stays
\* what it was, and the catalog of every conversation other than the one acted
\* on stays what it was.
C5_PersonaStable ==
    [][\A b \in created :
          /\ PersonaId(b)' = PersonaId(b)
          /\ conversation_history'[b] = conversation_history[b]
                => personas'[b] = personas[b]]_vars
\* two conversations with different personas, both engaged
C5_Witness ==
    \E a, b \in created :
       /\ current_persona[a] # current_persona[b]
       /\ turn_number[a] >= 1 /\ ret[a] # NoReply
       /\ Len(conversation_history[b]) >= 2

\* C1: whatever the message, detect's confidence is an integer in 0..100 and
\* is_scam is true exactly when the confidence is at least 50.
C1_ConfidenceRange ==
    detection # <<>> =>
        /\ detection[1].confidence \in 0..100
        /\ detection[1].is_scam <=> (detection[1].confidence >= 50)
\* a message whose score is cut down to 100, reported as a scam
C1_Witness ==
    /\ detection # <<>>
    /\ detection[1].confidence = 100
    /\ detection[1].is_scam

\* C2: detect's scam_type is present exactly when is_scam is true, and is then
\* the scam type with the top weighted score.
C2_ScamTypeIffScam ==
    detection # <<>> =>
        /\ (detection[1].scam_type # None) <=> detection[1].is_scam
        /\ detection[1].is_scam =>
              detection[1].scam_type =
                  ScamTypes[TopScamType(lower(message), confidence_weight)]
\* a scam type matched, the confidence stayed below 50, and no scam_type is given
C2_Witness ==
    /\ detection # <<>>
    /\ detection[1].matched_patterns # <<>>
    /\ detection[1].confidence \in 1..49
    /\ detection[1].scam_type = None

\* C6: extract_all depends only on the adversary's messages: what it returned
\* for the transcript is what it returns for the transcript without the
\* agent's messages, so two transcripts with the same adversary messages in
\* the same order give the same intelligence.
C6_OnlyAdversaryMessages ==
    LET adversary == SelectSeq(transcript, LAMBDA msg : msg.role # "agent") IN
    \A k \in 1..Len(extractions) :
        \E order \in HashOrders :
            extractions[k] = extract_all(adversary, parser_fails, order)
\* an agent message that names a UPI id, next to an adversary message that
\* names none: the extraction reports the adversary's URLs and no UPI id
C6_Witness ==
    /\ Len(extractions) > 0
    /\ transcript = <<[role |-> "agent", content |-> X_Upi],
                      [role |-> "scammer", content |-> X_Url]>>
    /\ extractions[1].upi_ids = <<>>
    /\ Len(extractions[1].urls) = 2

\* C7: the i-th account number of the whole text is paired with its i-th IFSC
\* code; an account beyond the last IFSC code has no ifsc_code and no
\* bank_name; the IFSC codes beyond the last account follow, without an
\* account_number; there are max(accounts, IFSC codes) entries; bank_name is
\* the bank of the code's first four letters, or 'Unknown Bank'.
C7_OrdinalPairing ==
    LET text == JoinSpace(Contents(SelectSeq(transcript, IsScammer)))
        acc == FindAll(text, AccountEnds(text))
        ifsc == FindAll(text, IfscEnds(text))
    IN \A k \in 1..Len(extractions) :
        LET b == extractions[k].bank_accounts IN
        /\ Len(b) = Max(Len(acc), Len(ifsc))
        /\ \A i \in 1..Len(b) :
            /\ b[i].account_number = IF i <= Len(acc) THEN <<acc[i]>> ELSE <<>>
            /\ b[i].ifsc_code = IF i <= Len(ifsc) THEN <<upper(ifsc[i])>> ELSE <<>>
            /\ b[i].bank_name = IF i <= Len(ifsc)
                                THEN bank_codes(SubSeq(upper(ifsc[i]), 1, 4))
                                ELSE None
\* one account number and two IFSC codes, the first code in an earlier message
\* than the account: the account takes the first code, of no known bank, and
\* the second code follows on its own
C7_Witness ==
    /\ Len(extractions) > 0
    /\ transcript = <<[role |-> "scammer", content |-> X_Upi],
                      [role |-> "scammer", content |-> X_Url]>>
    /\ LET b == extractions[1].bank_accounts IN
       /\ Len(b) = 2
       /\ b[1].account_number = <<<<"1","2","3","4","5","6","7","8","9","0","1","2","3">>>>
       /\ b[1].ifsc_code = <<<<"A","B","C","D","0","1","2","3","4","5","6">>>>
       /\ b[1].bank_name = "Unknown Bank"
       /\ b[2].account_number = <<>>
       /\ b[2].bank_name = "State Bank of India"

\* C8: when the phone parser fails, extract_phone_numbers falls back to the
\* regional pattern and returns the numbers that pattern matches in the text,
\* each once, in international form (+91 and the ten digits).
C8_FallbackReturnsNumbers ==
    LET text == JoinSpace(Contents(SelectSeq(transcript, IsScammer)))
        matched == Range(Spans(PhoneEnds(text)))
    IN parser_fails =>
        \A k \in 1..Len(extractions) :
            /\ NoDuplicates(extractions[k].phone_numbers)
            /\ Range(extractions[k].phone_numbers) = {E164(text, sp[2]) : sp \in matched}

\* C9: no extracted email contains a handle of the payment-handle vocabulary,
\* and no token is both in upi_ids and in emails.
C9_EmailsAreNotHandles ==
    \A k \in 1..Len(extractions) :
        \A email \in Range(extractions[k].emails) :
            /\ ~ContainsAny(lower(email), upi_handles)
            /\ email \notin Range(extractions[k].upi_ids)

\* C10: two calls of extract_all on the same transcript return the same
\* upi_ids, phone_numbers, urls, emails and crypto addresses as sets, and no
\* collection holds an element twice.
C10_ReExtraction ==
    /\ \A j, k \in 1..Len(extractions) :
        /\ Range(extractions[j].upi_ids) = Range(extractions[k].upi_ids)
        /\ Range(extractions[j].phone_numbers) = Range(extractions[k].phone_numbers)
        /\ Range(extractions[j].urls) = Range(extractions[k].urls)
        /\ Range(extractions[j].emails) = Range(extractions[k].emails)
        /\ Range(extractions[j].crypto_addresses.bitcoin)
              = Range(extractions[k].crypto_addresses.bitcoin)
        /\ Range(extractions[j].crypto_addresses.ethereum)
              = Range(extractions[k].crypto_addresses.ethereum)
    /\ \A k \in 1..Len(extractions) :
        /\ NoDuplicates(extractions[k].upi_ids)
        /\ NoDuplicates(extractions[k].phone_numbers)
        /\ NoDuplicates(extractions[k].urls)
        /\ NoDuplicates(extractions[k].emails)
        /\ NoDuplicates(extractions[k].crypto_addresses.bitcoin)
        /\ NoDuplicates(extractions[k].crypto_addresses.ethereum)
\* two calls on a transcript whose adversary repeats a URL and an Ethereum
\* address: each is reported once, and the two calls list the URLs in
\* different orders
C10_Witness ==
    /\ Len(extractions) = 2
    /\ transcript = <<[role |-> "scammer", content |-> X_Url],
                      [role |-> "scammer", content |-> X_Coin]>>
    /\ Len(extractions[1].urls) = 2
    /\ Len(extractions[1].crypto_addresses.ethereum) = 1
    /\ extractions[1].urls # extractions[2].urls

\* C11: a conversation holds at most one detail request: once
\* intelligence_extracted is set it stays set, and no later call adds a
\* detail request to the history, whatever the random test gives.
C11_OneDetailRequest ==
    [][\A a \in created :
          LET details(h) == {i \in 1..Len(h) :
                                h[i].role = "agent" /\ h[i].content.set = "detail"}
          IN /\ Cardinality(details(conversation_history'[a])) <= 1
             /\ intelligence_extracted[a] =>
                   /\ intelligence_extracted'[a]
                   /\ details(conversation_history'[a]) = details(conversation_history[a])]_vars
\* the high-tier persona asked for the details at turn 3 and answered turn 4,
\* where the random test may succeed again, with another reply
C11_Witness ==
    /\ current_persona["c1"] = "elderly_user"
    /\ intelligence_extracted["c1"]
    /\ turn_number["c1"] = 4
    /\ Len(conversation_history["c1"]) = 8
    /\ conversation_history["c1"][6].content.set = "detail"
    /\ conversation_history["c1"][8].content.set = "default"

\* C12: a detail request is emitted only at a turn the persona's tier allows:
\* from turn 3 for high, 4 for medium-high, 5 for medium, never for low.
C12_DetailOnlyWhenTierAllows ==
    [][\A a \in created :
          (conversation_history'[a] # conversation_history[a] /\ ret'[a].set = "detail")
          => LET tier == personas[a][current_persona[a]].vulnerability_level IN
             /\ tier \in {"high", "medium-high", "medium"}
             /\ tier = "high" => turn_number'[a] >= 3
             /\ tier = "medium-high" => turn_number'[a] >= 4
             /\ tier = "medium" => turn_number'[a] >= 5]_vars
\* the medium-tier persona asks for the details at turn 5
C12_Witness ==
    /\ current_persona["c1"] = "worried_parent"
    /\ turn_number["c1"] = 5
    /\ ret["c1"].set = "detail"
    /\ Len(conversation_history["c1"]) = 10

\* C13: a reply that is not a detail request is drawn from the candidate list
\* of the first category, in the order urgency, threat, prize, payment, link,
\* whose words occur in the adversary's message, and from the default list
\* when no category's words occur.
C13_FirstCategoryWins ==
    [][\A a \in created :
          LET h == conversation_history'[a]
              reply == ret'[a]
              msg == lower(h[Len(h) - 1].content)
              urgency == ContainsAny(msg, UrgencyWords)
              threat == ContainsAny(msg, ThreatWords)
              prize == ContainsAny(msg, PrizeWords)
              payment == ContainsAny(msg, PaymentWords)
              link == ContainsAny(msg, LinkWords)
          IN (/\ Len(h) = Len(conversation_history[a]) + 2
              /\ reply.set \notin {"initial", "generic", "detail"})
             => /\ reply.idx \in 1..SetSize(reply.set)
                /\ reply.set =
                      IF urgency THEN "urgency"
                      ELSE IF threat THEN "threat"
                      ELSE IF prize THEN "prize"
                      ELSE IF payment THEN "payment"
                      ELSE IF link THEN "link"
                      ELSE "default"]_vars
\* a message with threat, prize and payment words is answered from the threat list
C13_Witness ==
    LET h == conversation_history["c1"] IN
    /\ Len(h) = 4
    /\ h[3].content = M_Threat
    /\ ContainsAny(lower(M_Threat), PrizeWords)
    /\ ContainsAny(lower(M_Threat), PaymentWords)
    /\ ret["c1"].set = "threat"
    /\ h[4].content = ret["c1"]

\* C14: start_conversation on a new conversation makes the history the
\* adversary's opening message followed by the agent's reply, sets
\* turn_number to 1 and returns the reply it recorded.
C14_StartRecordsBoth ==
    [][\A a \in created, m \in ConvMessages :
          (/\ conversation_history[a] = <<>>
           /\ \E pick \in PersonaKeys, idx \in 1..MaxIdx :
                  StartConversation(a, m, pick, idx, FALSE, FALSE))
          => /\ conversation_history'[a] =
                   <<[role |-> "scammer", content |-> m],
                     [role |-> "agent", content |-> ret'[a]]>>
             /\ ret'[a].set \in {"initial", "generic"}
             /\ turn_number'[a] = 1]_vars
\* a conversation just started with a message in mixed case
C14_Witness ==
    /\ turn_number["c1"] = 1
    /\ Len(conversation_history["c1"]) = 2
    /\ conversation_history["c1"][1].content = M_PayNow
    /\ conversation_history["c1"][2].content = ret["c1"]
    /\ ret["c1"].set = "initial"

\* C15: turn_number is 0 for a new conversation and always equals the number
\* of adversary messages recorded in the history.
C15_TurnCountsAdversaryMessages ==
    \A a \in Agents :
        turn_number[a] =
            Cardinality({i \in 1..Len(conversation_history[a]) :
                            conversation_history[a][i].role = "scammer"})

\* C16: the history is append-only: every step keeps the entries it had, in
\* their order, and adds only at the end, also after the turn limit.
C16_HistoryAppendOnly ==
    [][\A a \in Agents :
          /\ Len(conversation_history'[a]) >= Len(conversation_history[a])
          /\ SubSeq(conversation_history'[a], 1, Len(conversation_history[a]))
                = conversation_history[a]]_vars
\* a message recorded after the turn limit was reached, behind a reply
C16_Witness ==
    LET h == conversation_history["c1"] IN
    /\ TurnLimitReached(turn_number["c1"], max_turns["c1"])
    /\ ret["c1"] = NoReply
    /\ Len(h) >= 3
    /\ h[Len(h)].role = "scammer"
    /\ h[Len(h) - 1].role = "agent"

\* C17: when no scam type scores above zero, detect returns is_scam false,
\* confidence 0 and no scam_type, whatever red flags, URLs, phone numbers and
\* urgency words the message holds.
C17_NoMatchNoConfidence ==
    LET msg == lower(message)
        hits(ws) == {k \in 1..Len(ws) : \E i \in 1..Len(msg) : MatchAt(msg, lower(ws[k]), i)}
        unmatched == \A k \in 1..Len(ScamTypes) :
                        /\ hits(Keywords(ScamTypes[k])) = {}
                        /\ hits(UrgencyIndicators(ScamTypes[k])) = {}
                        /\ hits(AuthorityClaims(ScamTypes[k])) = {}
    IN (detection # <<>> /\ unmatched) =>
          /\ ~detection[1].is_scam
          /\ detection[1].confidence = 0
          /\ detection[1].scam_type = None
\* a message with a red flag, two suspicious URLs, a phone number and an
\* urgency word, and no word of any scam type
C17_Witness ==
    /\ detection # <<>>
    /\ detection[1].confidence = 0
    /\ detection[1].matched_patterns = <<>>
    /\ detection[1].red_flags # <<>>
    /\ check_url_patterns(message) = 3
    /\ check_phone_patterns(message) > 0
    /\ check_urgency_language(message) > 0

\* C18: detect on the empty string or on whitespace-only text returns a
\* result, with is_scam false and confidence 0.
C18_BlankMessage ==
    (detection # <<>> /\ \A i \in 1..Len(message) : message[i] \in SpaceSet) =>
        /\ ~detection[1].is_scam
        /\ detection[1].confidence = 0
\* detect has returned for a message of a space, a tab and a newline
C18_Witness ==
    /\ detection # <<>>
    /\ message = <<" ", "\t", "\n">>
    /\ detection[1].confidence = 0

\* C19 as stated: with a scam type matched, the confidence is
\* round(weighted_score*15 + red_flag_count*10 - legitimate_count*20) plus the
\* heuristic boosts, clamped to 0..100.
C19_BaseIsRounded ==
    LET msg == lower(message)
        n == WeightedScore(ScamTypes[TopScamType(msg, confidence_weight)], msg,
                           confidence_weight) * 15
             + 1000 * (10 * Len(Matched(msg, common_red_flags)))
             - 1000 * (20 * CountIn(msg, legitimate_indicators))
        q == n \div 1000
        r == n - 1000 * q
        rounded == IF 2 * r < 1000 THEN q
                   ELSE IF 2 * r > 1000 THEN q + 1
                   ELSE IF q % 2 = 0 THEN q ELSE q + 1
        boosts == check_url_patterns(message) * 10 + check_phone_patterns(message) * 8
                  + check_urgency_language(message) * 5
    IN (detection # <<>> /\ detection[1].matched_patterns # <<>>) =>
          detection[1].confidence = Max(0, Min(100, rounded + boosts))
\* C19 as amended: the base confidence is the same sum with its fraction
\* dropped, towards zero, as int() drops it; the boosts are added and the sum
\* is clamped to 0..100.
C19_BaseIsTruncated ==
    LET msg == lower(message)
        n == WeightedScore(ScamTypes[TopScamType(msg, confidence_weight)], msg,
                           confidence_weight) * 15
             + 1000 * (10 * Len(Matched(msg, common_red_flags)))
             - 1000 * (20 * CountIn(msg, legitimate_indicators))
        truncated == IF n >= 0 THEN n \div 1000 ELSE -((-n) \div 1000)
        boosts == check_url_patterns(message) * 10 + check_phone_patterns(message) * 8
                  + check_urgency_language(message) * 5
    IN (detection # <<>> /\ detection[1].matched_patterns # <<>>) =>
          detection[1].confidence = Max(0, Min(100, truncated + boosts))
\* 'Verify IMMEDIATELY' under the weight 1.25: the sum is 46.875, the base 46,
\* the confidence 51 with the boost of the urgency word
C19_Witness ==
    /\ detection # <<>>
    /\ message = <<"V","e","r","i","f","y"," ","I","M","M","E","D","I","A","T","E","L","Y">>
    /\ confidence_weight["banking_fraud"] = 125
    /\ detection[1].confidence = 51

\* C20: the winning scam type has the largest weighted score among the scam
\* types that matched, and of several with the largest score it is the first
\* in the order of the catalog; its matches and, for a scam, its name are
\* reported.
C20_FirstOfTheLargestWins ==
    LET msg == lower(message)
        w(k) == WeightedScore(ScamTypes[k], msg, confidence_weight)
        matched == {k \in 1..Len(ScamTypes) : Score(ScamTypes[k], msg) > 0}
    IN (detection # <<>> /\ matched # {}) =>
          \E k \in matched :
             /\ \A j \in matched : w(j) <= w(k)
             /\ \A j \in matched : w(j) = w(k) => k <= j
             /\ detection[1].matched_patterns = Matches(ScamTypes[k], msg)
             /\ detection[1].is_scam => detection[1].scam_type = ScamTypes[k]
\* the first two scam types both score 2 under equal weights, and the first
\* is reported
C20_Witness ==
    /\ detection # <<>>
    /\ detection[1].is_scam
    /\ detection[1].scam_type = "banking_fraud"
    /\ WeightedScore("banking_fraud", lower(message), confidence_weight)
          = WeightedScore("prize_lottery", lower(message), confidence_weight)

\* C21: requesting a persona id that is not in the catalog, or none, never
\* fails: every engagement that got as far as its agent, whatever persona the
\* request and the configuration named, has a current persona that is a
\* catalog key and carries that key as its id, and the report names it
C21_UnknownPersonaDegrades ==
    \A a \in Agents :
        phase[a] \notin {"new", "error", "ignored"} =>
            /\ a \in created
            /\ current_persona[a] \in PersonaKeys
            /\ PersonaId(a) = current_persona[a]
            /\ phase[a] = "reported" =>
                  report[a][1].conversation_summary.persona_used \in PersonaKeys
\* an engagement whose request named an unknown persona went on to its report
C21_Witness ==
    \E a \in Agents :
        /\ request[a].persona = "no_such_persona"
        /\ phase[a] = "reported"
        /\ Len(conversation_history[a]) >= 2
        /\ current_persona[a] \in PersonaKeys

\* C22: in a generated report each of the five tactic labels is present
\* exactly when a keyword of its list occurs, in either case of letters, in a
\* message of the transcript written by the adversary; what the agent wrote
\* adds no tactic
C22_TacticIffKeyword ==
    generated # Nil =>
        \A tactic \in Range(Tactics) :
            tactic \in Range(generated[1].conversation_summary.key_tactics)
            <=> \E k \in 1..Len(transcript) :
                   /\ transcript[k].role = "scammer"
                   /\ \E word \in TacticWords(tactic) :
                         \E i \in 1..Len(transcript[k].content) :
                            MatchAtNoCase(transcript[k].content, word, i)
\* a report with a tactic of the adversary's message and without the tactic
\* whose word only the agent wrote
C22_Witness ==
    /\ generated # Nil
    /\ transcript = <<[role |-> "scammer", content |-> R_Know],
                      [role |-> "agent", content |-> R_Police]>>
    /\ generated[1].conversation_summary.key_tactics = <<"urgency">>

\* C23: conversations are independent: the persona of an engagement depends
\* only on its request and the configuration the honeypot started with, so an
\* engagement whose request names no persona uses the persona the
\* configuration file names, whatever earlier requests named
C23_PersonaIndependent ==
    \A a \in Agents :
        /\ phase[a] \notin {"new", "error", "ignored"}
        /\ ~Truthy(request[a].persona)
        /\ configured_persona \in PersonaKeys
        => current_persona[a] = configured_persona

\* C24: requests that target the same session id are handled under exclusive
\* access: no two handlers are on the first-message path for one session at
\* once, no session is sent in two final-result callbacks, and a turn's
\* update of the session is atomic: whoever reads a session finds
\* scam_detected together with the scam type that was detected
C24_OneFirstMessage ==
    \A g \in Handlers, h \in Handlers :
        /\ g # h
        /\ pc[g] \in {"first", "record"}
        /\ pc[h] \in {"first", "record"}
        => http_request[g].sessionId # http_request[h].sessionId
C24_OneCallback ==
    \A i \in DOMAIN callbacks, j \in DOMAIN callbacks :
        i # j => callbacks[i].session # callbacks[j].session
C24_AtomicUpdate ==
    \A h \in Handlers :
        /\ http_response[h].status = "details"
        /\ http_response[h].reply.scam_detected
        => http_response[h].reply.scam_type # None
C24_ExclusiveAccess ==
    /\ C24_OneFirstMessage
    /\ C24_OneCallback
    /\ C24_AtomicUpdate

\* C25: a report is produced from whatever transcript exists when an
\* engagement ends: once engage_scammer has left its conversation and
\* returned or raised, generate_report has run on the history accumulated
C25_ReportOnTermination ==
    \A a \in Agents :
        phase[a] \in {"reported", "raised"} =>
            /\ report[a] # Nil
            /\ report[a][1].full_transcript = conversation_history[a]

\* C26: engage_scammer's loop terminates: an iteration never takes the count
\* beyond max_conversation_turns, the loop is left as soon as the adversary
\* is silent (the simulator after SimulatorTurns follow-ups) or the agent
\* returns none, and whenever an iteration ends the loop or continues it the
\* handler is in the loop or at the report step
C26_LoopTerminates ==
    [][\A a \in Agents :
          phase[a] = "loop" /\ loop_turn'[a] # loop_turn[a] =>
              /\ loop_turn'[a] <= config.agent.max_conversation_turns
              /\ phase'[a] \in {"loop", "ended"}
              /\ loop_turn'[a] = config.agent.max_conversation_turns
                    => phase'[a] = "ended"
              /\ ret'[a] = NoReply => phase'[a] = "ended"
              /\ (sessions'[a] # Nil /\ SimulatorSilent(sessions'[a][1].turn_count))
                    => phase'[a] = "ended"]_vars

\* C27: the first message of a new session, detected as a scam at or above
\* the confidence threshold, is answered 200 with status 'success', and
\* afterwards the session holds a conversation agent and total_messages is 2
C27_FirstMessageEngaged ==
    \A h \in Handlers :
        /\ pc[h] = "done"
        /\ http_request[h].kind = "honeypot"
        /\ handler_session[h] = Some(h)
        /\ handler_detection[h].is_scam
        /\ handler_detection[h].confidence >= config.detection.min_confidence_threshold
        => /\ http_response[h].code = 200
           /\ http_response[h].status = "success"
           /\ heap[h].agent # None
           /\ heap[h].total_messages = 2

\* C28: a request to the honeypot or a session endpoint whose x-api-key is
\* missing or wrong is rejected with 401 before anything else happens: the
\* step its handler takes after receiving it returns 401 and leaves the
\* sessions, the detections, the payloads and the callbacks as they were
C28_UnauthorizedRejected ==
    [][\A h \in Handlers :
          /\ pc[h] = "verify"
          /\ http_request[h].key # API_KEY
          /\ pc'[h] # pc[h]
          => /\ pc'[h] = "done"
             /\ http_response'[h].code = 401
             /\ UNCHANGED <<heap, active_sessions, callbacks, handler_session,
                            handler_detection, payload>>]_vars
C28_Witness ==
    \E g \in Handlers, h \in Handlers :
        /\ http_request[g].kind = "honeypot" /\ http_request[g].key = None
        /\ pc[g] = "done" /\ http_response[g].code = 401
        /\ http_request[h].kind = "end" /\ http_request[h].key = "wrong-key"
        /\ pc[h] = "done" /\ http_response[h].code = 401
        /\ active_sessions["s1"] # Nil
        /\ heap[active_sessions["s1"][1]].scam_detected
        /\ callbacks = <<>>

\* C29: with rate limiting enabled the client never sends more than
\* requests_per_minute HTTP requests within a window of 60 seconds: of the
\* requests sent, no more than that many fall in the minute that begins with
\* any one of them
C29_RateLimited ==
    client.rate_limit_enabled =>
        \A i \in DOMAIN issued :
            Cardinality({k \in DOMAIN issued :
                            issued[i] <= issued[k] /\ issued[k] < issued[i] + Minute})
                <= client.requests_per_minute

\* C30 (as stated): _make_request_with_retry makes at most max_retries
\* attempts, returns only a response that passed the status check, and
\* otherwise raises: 'Max retries exceeded' when every attempt was answered
\* 429, else the last RequestException; every wait follows a failed attempt
\* k and lasts backoff_factor to the power k
C30_RaisesAsStated ==
    LET n == Len(outcomes)
    IN /\ n <= max_retries
       /\ n = max_retries => call_result.status # "running"
       /\ call_result.status = "returned" =>
             outcomes[n] = "ok" /\ call_result.of = n - 1
       /\ call_result.status = "raised" =>
             IF \A k \in 1..n : outcomes[k] = "429"
             THEN call_result.what = "Max retries exceeded"
             ELSE LET e == CHOOSE k \in 1..n :
                              /\ outcomes[k] \in {"error", "exception"}
                              /\ \A j \in (k + 1)..n : outcomes[j] \notin {"error", "exception"}
                  IN call_result.of = e - 1 /\ call_result.what = outcomes[e]
       /\ \A i \in DOMAIN waits :
             /\ outcomes[waits[i].after + 1] # "ok"
             /\ waits[i].seconds = client.backoff_factor ^ waits[i].after

\* C30 (amended): _make_request_with_retry makes at most max_retries
\* attempts, returns only a response that passed the status check, and
\* otherwise raises: 'Max retries exceeded' when the last attempt was
\* answered 429, else the RequestException of the last attempt; every wait
\* follows a failed attempt k and lasts backoff_factor to the power k
C30_RaisesByLastAttempt ==
    LET n == Len(outcomes)
    IN /\ n <= max_retries
       /\ n = max_retries => call_result.status # "running"
       /\ call_result.status = "returned" =>
             outcomes[n] = "ok" /\ call_result.of = n - 1
       /\ call_result.status = "raised" =>
             IF outcomes[n] = "429"
             THEN call_result.what = "Max retries exceeded"
             ELSE /\ outcomes[n] \in {"error", "exception"}
                  /\ call_result.of = n - 1 /\ call_result.what = outcomes[n]
       /\ \A i \in DOMAIN waits :
             /\ outcomes[waits[i].after + 1] # "ok"
             /\ waits[i].seconds = client.backoff_factor ^ waits[i].after
C30_Witness ==
    /\ call_result.status = "raised"
    /\ call_result.what = "Max retries exceeded"
    /\ outcomes = <<"exception", "429", "429">>
    /\ waits = <<[after |-> 0, seconds |-> 1], [after |-> 1, seconds |-> 2],
                 [after |-> 2, seconds |-> 4]>>

\* C32: generate_response returns none exactly when the incremented
\* turn_number exceeds max_turns; in every other call it returns a reply and
\* appends the adversary's message and then the reply to the history; and
\* the history of a conversation holds at most max_turns agent replies
C32_RepliesWithinLimit ==
    [][\A a \in created :
          /\ (\E msg \in ConvMessages, ask \in BOOLEAN, idx \in 1..MaxIdx, coin \in BOOLEAN :
                 GenerateResponse(a, msg, ask, idx, coin, FALSE, FALSE))
             => /\ ret'[a] = NoReply <=> turn_number[a] + 1 > max_turns[a]
                /\ ret'[a] # NoReply =>
                      /\ Len(conversation_history'[a]) = Len(conversation_history[a]) + 2
                      /\ conversation_history'[a][Len(conversation_history'[a]) - 1].role
                            = "scammer"
                      /\ conversation_history'[a][Len(conversation_history'[a])]
                            = [role |-> "agent", content |-> ret'[a]]
          /\ Cardinality({i \in 1..Len(conversation_history'[a]) :
                             conversation_history'[a][i].role = "agent"})
                <= max_turns'[a]]_vars

\* C39: in a conversation begun with start_conversation every reply of
\* generate_response is styled at a turn_number of 2 or more: no reply
\* carries busy_professional's turn-1 prefix, the hesitant prefix is on
\* elderly_user's replies of turn 2 and no others, the worried prefix on
\* worried_parent's replies of turns 2 and 3 and no others
C39_StyledFromTurnTwo ==
    [][\A a \in created :
          LET h == conversation_history[a]
              reply == ret'[a]
              turn == turn_number'[a]
          IN (/\ Len(h) >= 2
              /\ h[2].role = "agent"
              /\ h[2].content.set \in {"initial", "generic"}
              /\ Len(conversation_history'[a]) = Len(h) + 2
              /\ turn = turn_number[a] + 1)
             => /\ turn >= 2
                /\ reply.prefix # "busy"
                /\ reply.prefix = "hesitant" <=> (PersonaId(a) = "elderly_user" /\ turn = 2)
                /\ reply.prefix = "oh_no" <=>
                      (PersonaId(a) = "worried_parent" /\ turn \in {2, 3})]_vars
\* conversations begun with start_conversation whose replies of turn 4 and
\* of turn 3 carry no prefix and the worried prefix
C39_Witness ==
    LET h == conversation_history["c1"] IN
    /\ Len(h) >= 6
    /\ h[2].content.set = "initial"
    /\ \/ /\ current_persona["c1"] = "worried_parent"
          /\ turn_number["c1"] = 4
          /\ h[Len(h)].role = "agent"
          /\ h[Len(h)].content.prefix = "none"
          /\ h[Len(h) - 2].content.prefix = "oh_no"
       \/ /\ current_persona["c1"] = "elderly_user"
          /\ turn_number["c1"] = 3
          /\ h[Len(h)].role = "agent"
          /\ h[Len(h)].content.prefix = "none"
          /\ h[Len(h) - 2].content.prefix = "hesitant"

\* C33: process_message starts a conversation (an agent is created, the
\* adversary API is talked to, a report is produced) only when detect reports
\* is_scam with a confidence of at least min_confidence_threshold, and does so
\* then; every other message is answered 'ignored', or 'error' when it is no
\* text, empty or whitespace-only, with no agent, no API session, no turn and
\* no report, and detect is never called on a text that is empty once
\* sanitized
C33_EngagesOnlyScams ==
    \A a \in Agents :
        (phase[a] # "new" /\ request[a].has_message) =>
            LET data == request[a]
                text == Sanitized(data.message)
                blank == ~data.is_text \/ text = <<>>
                scam == /\ detected[a] # Nil
                        /\ detected[a][1].is_scam
                        /\ detected[a][1].confidence
                              >= config.detection.min_confidence_threshold
            IN /\ phase[a] \notin {"error", "ignored"} <=> scam
               /\ phase[a] = "error" <=> blank
               /\ (data.is_text /\ \A i \in 1..Len(data.message) :
                                       data.message[i] \in SpaceSet)
                     => phase[a] = "error"
               /\ detected[a] = Nil <=> blank
               /\ detected[a] # Nil => detected[a][1] = honeypot_detect[text]
               /\ phase[a] \in {"error", "ignored"}
                     => /\ a \notin created
                        /\ sessions[a] = Nil
                        /\ loop_turn[a] = 0
                        /\ report[a] = Nil

\* a scam below the threshold was ignored after detect saw it, and a scam
\* above the threshold got its agent and its report
C33_Witness ==
    \E a, b \in Agents :
        /\ phase[a] = "ignored" /\ request[a].message = E_Low
        /\ detected[a] # Nil /\ detected[a][1].is_scam
        /\ phase[b] = "reported" /\ b \in created /\ request[b].message = E_Scam

\* C34: in an engagement started by process_message the first adversary
\* message of the report's transcript is the message that detect classified,
\* and the report's scam_type and confidence are detect's result for it
C34_ReportOpensWithClassified ==
    \A a \in Agents :
        phase[a] = "reported" =>
            LET full_transcript == report[a][1].full_transcript
                classified == Sanitized(request[a].message)
            IN /\ full_transcript # <<>>
               /\ full_transcript[1] = [role |-> "scammer", content |-> classified]
               /\ report[a][1].scam_type = honeypot_detect[classified].scam_type
               /\ report[a][1].confidence_score = honeypot_detect[classified].confidence

\* C35: whichever adversary API is configured, an API session has been
\* started when the loop of engage_scammer sends a reply of the agent, and
\* the sending does not raise 'No active session'
C35_SessionBeforeSend ==
    [][\A a \in Agents :
          (phase[a] = "loop" /\ loop_turn'[a] = loop_turn[a] + 1)
             => /\ sessions[a] # Nil
                /\ phase'[a] # "raised"]_vars

\* C36: send_final_result goes on to its cleanup however the callback ended
\* (status 200, another status, timeout, another exception) and the cleanup
\* leaves the session id absent from the registry; a session that was
\* finalized is never registered again, and a message whose lookup finds the
\* id absent is handled as the first message of a new session that was in no
\* callback, with total_messages 0 and empty intelligence
C36_FinalizedSessionGone ==
    [][\A h \in Handlers :
          LET session_id == http_request[h].sessionId
          IN /\ (pc[h] = "post" /\ pc'[h] # "post") => pc'[h] = "cleanup"
             /\ (pc[h] = "cleanup" /\ pc'[h] # "cleanup")
                   => /\ active_sessions'[session_id] = Nil
                      /\ pc'[h] = "done"
             /\ (/\ http_request'[h].kind = "end"
                 /\ pc'[h] = "done"
                 /\ handler_session'[h] # Nil)
                   => active_sessions'[session_id] # handler_session'[h]
             /\ (/\ http_request[h].kind = "honeypot"
                 /\ pc[h] = "lookup" /\ pc'[h] # "lookup"
                 /\ active_sessions[session_id] = Nil)
                   => pc'[h] = "create"
             /\ (pc[h] = "create" /\ pc'[h] # "create")
                   => /\ pc'[h] = "first"
                      /\ active_sessions'[session_id] = Some(h)
                      /\ handler_session'[h] = Some(h)
                      /\ \A i \in DOMAIN callbacks : callbacks[i].session # h
                      /\ heap'[h].total_messages = 0
                      /\ heap'[h].intelligence =
                            [bankAccounts |-> <<>>, upiIds |-> <<>>,
                             phishingLinks |-> <<>>, phoneNumbers |-> <<>>,
                             suspiciousKeywords |-> <<>>]]_vars

\* the first session was finalized with a callback that timed out, and a
\* later message with its id has been answered on a session of its own
C36_Witness ==
    /\ Len(callbacks) = 1
    /\ callbacks[1].session = "h1"
    /\ callbacks[1].outcome = "Timeout"
    /\ pc["h2"] = "done" /\ http_request["h2"].kind = "end"
    /\ pc["h3"] = "done" /\ http_request["h3"].kind = "honeypot"
    /\ handler_session["h3"] = Some("h3")
    /\ active_sessions["s1"] = Some("h3")
    /\ heap["h3"].total_messages = 0
    /\ heap["h1"].intelligence.suspiciousKeywords # <<>>

\* C37: in the GUVI flow the first message of a session is not passed to the
\* extractor: whatever it holds, the session's bankAccounts, upiIds,
\* phishingLinks and phoneNumbers stay empty, in the session, in the session
\* details and in every final-result payload; its suspicious keywords are
\* recorded
C37_OpeningNotExtracted ==
    LET NothingExtracted(intelligence) ==
            /\ intelligence.bankAccounts = <<>>
            /\ intelligence.upiIds = <<>>
            /\ intelligence.phishingLinks = <<>>
            /\ intelligence.phoneNumbers = <<>>
    IN /\ \A h \in Handlers :
            /\ NothingExtracted(heap[h].intelligence)
            /\ http_response[h].status = "details"
                  => NothingExtracted(http_response[h].reply.intelligence)
            /\ (/\ http_request[h].kind = "honeypot"
                /\ pc[h] = "done"
                /\ handler_session[h] # Nil)
                  => \A i \in DOMAIN request_keywords[http_request[h].text] :
                        \E j \in DOMAIN heap[handler_session[h][1]].intelligence
                                            .suspiciousKeywords :
                            heap[handler_session[h][1]].intelligence.suspiciousKeywords[j]
                               = request_keywords[http_request[h].text][i]
       /\ \A i \in DOMAIN callbacks :
             NothingExtracted(callbacks[i].payload.extractedIntelligence)

\* a session whose opening message holds a link and a phone number, which the
\* extractor finds, was answered and finalized: the payload holds the
\* message's keywords and nothing else
C37_Witness ==
    \E h \in Handlers :
        /\ http_request[h].kind = "honeypot" /\ http_request[h].text = E_Low
        /\ pc[h] = "done" /\ http_response[h].code = 200
        /\ handler_session[h] = Some(h)
        /\ extract_urls(E_Low, "forward") # <<>>
        /\ extract_phone_numbers(E_Low, FALSE, "forward") # <<>>
        /\ Len(callbacks) = 1
        /\ callbacks[1].session = h
        /\ callbacks[1].payload.extractedIntelligence.suspiciousKeywords
              = request_keywords[E_Low]
        /\ request_keywords[E_Low] # <<>>
        /\ callbacks[1].payload.extractedIntelligence.phishingLinks = <<>>

====
